---- MODULE Spec2Model ----
(***************************************************************************)
(* A model of the editable document model of ndf_parse                     *)
(* (src/ndf_parse/model/abc.py and src/ndf_parse/model/__init__.py): rows  *)
(* and list-like containers held in an object heap, the ownership          *)
(* bookkeeping of Row.__setattr__, and the mutation paths of List          *)
(* (add / insert / replace / remove / index assignment).                   *)
(*                                                                         *)
(* Objects are heap cells.  A row is rows[i], a container is conts[j];     *)
(* the index is the identity of the object (Python's `is`).  Objects are   *)
(* never freed: a caller may still hold a reference to any of them.        *)
(***************************************************************************)
EXTENDS Integers, Sequences, FiniteSets, TLC

\* ------------------------------------------------------------------ bounds
\* The heap holds at most MaxRows rows and MaxConts containers: an operation
\* that would allocate beyond them is not taken.
MaxRows == 9
MaxConts == 6

\* ------------------------------------------------------------- cell values
\* CellValue = str | List, OptCellValue adds None (abc.py:47-48).
None == [k |-> "none", id |-> 0, a |-> ""]
Atom(s) == [k |-> "atom", id |-> 0, a |-> s]
Ref(c) == [k |-> "list", id |-> c, a |-> ""]
IsList(v) == v.k = "list"

\* --------------------------------------------------------- small utilities
Range(s) == {s[i] : i \in DOMAIN s}
Max2(a, b) == IF a >= b THEN a ELSE b
Min2(a, b) == IF a <= b THEN a ELSE b
SeqSlice(s, lo, hi) == SubSeq(s, lo + 1, hi)
IndexOf(s, x) == IF \E i \in DOMAIN s : s[i] = x
                 THEN CHOOSE i \in DOMAIN s : s[i] = x /\ \A j \in 1..(i-1) : s[j] # x
                 ELSE 0

\* ------------------------------------------------------- row kind tables
\* _args_names of the row classes: one tuple of names per field, canonical
\* name first.
ArgsNames(kind) ==
  CASE kind = "ListRow" ->
         << <<"value", "v">>, <<"visibility", "vis">>, <<"namespace", "n">> >>
    [] kind = "MemberRow" ->
         << <<"value", "v">>, <<"member", "m">>, <<"type", "t">>,
            <<"visibility", "vis">>, <<"namespace", "n">> >>
    [] kind = "ParamRow" ->
         << <<"param", "p">>, <<"type", "t">>, <<"value", "v">> >>
    [] kind = "MapRow" ->
         << <<"key", "k">>, <<"value", "v">> >>

ArgsRequired(kind) ==
  CASE kind = "ListRow" -> <<"value">>
    [] kind = "MemberRow" -> <<"value">>
    [] kind = "ParamRow" -> <<"param">>
    [] kind = "MapRow" -> <<"key", "value">>

\* flatten(_args_names)
ArgsNamesFlat(kind) ==
  UNION {Range(ArgsNames(kind)[i]) : i \in DOMAIN ArgsNames(kind)}

\* Row.full_args_names
FullArgsNames(kind) == [i \in DOMAIN ArgsNames(kind) |-> ArgsNames(kind)[i][1]]

\* A resolution that sends every name to the first field of the kind.
CanonicalFirst(kind, name) == ArgsNames(kind)[1][1]

\* The canonical name of `name` (aliases[0] of the group holding it).
Canonical(kind, name) ==
  LET an == ArgsNames(kind)
      i == CHOOSE j \in DOMAIN an : name \in Range(an[j])
  IN an[i][1]

\* ------------------------------------------------------------------- heap
\* A heap h is [rows, conts].  rows[i] = [kind, parent, f]: parent is the
\* container holding the row (Row._parent, 0 for None), f maps each
\* canonical field name to its cell.  conts[j] = [kind, inner, owner]: inner
\* is List.__inner (row identities), owner is List._parent (the row whose
\* field holds the container, 0 for None); type ("" for None), is_root and
\* params (the Params container of a Template, 0 for the other classes) are
\* the attributes of the container classes of model/__init__.py.
RECURSIVE NoneFrom(_, _)
NoneFrom(names, i) ==
  IF i = Len(names) THEN names[i] :> None
  ELSE (names[i] :> None) @@ NoneFrom(names, i + 1)
NoFields(kind) == NoneFrom(FullArgsNames(kind), 1)
NewRowRec(kind) == [kind |-> kind, parent |-> 0, f |-> NoFields(kind)]
NewContRec(kind) ==
  [kind |-> kind, inner |-> <<>>, owner |-> 0, type |-> "", is_root |-> FALSE, params |-> 0]

\* `row._parent = p` for each of the rows ids[i..] in turn.
RECURSIVE SetParent(_, _, _, _)
SetParent(rs, ids, i, p) ==
  IF i > Len(ids) THEN rs
  ELSE SetParent([rs EXCEPT ![ids[i]].parent = p], ids, i + 1, p)

\* List.parent (abc.py:657-671): the container of the owning row.
ListParent(h, c) ==
  IF h.conts[c].owner # 0 THEN h.rows[h.conts[c].owner].parent ELSE 0

\* List.parent_row (abc.py:673-681)
ParentRow(h, c) == h.conts[c].owner

\* Row.index (abc.py:94-113): <<>> for None, <<i>> for index i, and <<-1>>
\* for the LookupError raised when the parent does not hold the row.
RowIndex(h, r) ==
  IF h.rows[r].parent = 0 THEN <<>>
  ELSE IF \E i \in DOMAIN h.conts[h.rows[r].parent].inner : h.conts[h.rows[r].parent].inner[i] = r
       THEN <<IndexOf(h.conts[h.rows[r].parent].inner, r) - 1>>
       ELSE <<-1>>

\* Comparisons never meet more than MaxConts nested containers unless the
\* structure is cyclic; beyond that depth Python raises RecursionError.
Fuel == MaxConts + 1

\* ------------------------------------------------------------- the parser
\* parser.entries_list followed by converter.find_converter on each item,
\* for the source texts the model uses.  err is the exception raised
\* ("" for none), stmts the field mappings of the statements.
EntriesList(code) ==
  CASE code = "" -> [err |-> "ValueError", stmts |-> <<>>]
    [] code = "1" -> [err |-> "", stmts |-> << <<[n |-> "value", v |-> Atom("1")]>> >>]
    [] code = "2" -> [err |-> "", stmts |-> << <<[n |-> "value", v |-> Atom("2")]>> >>]
    [] code = "A" -> [err |-> "", stmts |-> << <<[n |-> "value", v |-> Atom("A")]>> >>]
    [] code = "A is 1" ->
         [err |-> "", stmts |-> << <<[n |-> "value", v |-> Atom("1")],
                                     [n |-> "namespace", v |-> Atom("A")]>> >>]
    [] code = "1, 2" ->
         [err |-> "", stmts |-> << <<[n |-> "value", v |-> Atom("1")]>>,
                                   <<[n |-> "value", v |-> Atom("2")]>> >>]
    [] code = "2, 2" ->
         [err |-> "", stmts |-> << <<[n |-> "value", v |-> Atom("2")]>>,
                                   <<[n |-> "value", v |-> Atom("2")]>> >>]
    [] OTHER -> [err |-> "BadNdfError", stmts |-> <<>>]

\* The fields of the row the row class builds from a field mapping without
\* clashes (used where a comparison parses its string operand).
FieldsOfStmt(kind, kw) ==
  [n \in Range(FullArgsNames(kind)) |->
     IF \E i \in DOMAIN kw : kw[i].n = n
     THEN kw[CHOOSE i \in DOMAIN kw : kw[i].n = n].v
     ELSE None]

\* --------------------------------------------------------------- equality
\* The outcome of Python's `x != y` on cells, rows and containers:
\* "eq", "ne" or "raise".  Row.compare iterates a set of field names, whose
\* order is not fixed: when one field differs and the comparison of another
\* raises, either may come first; pref is the outcome that wins then.
RECURSIVE CellCmp(_, _, _, _, _), FieldsCmp(_, _, _, _, _), RowsCmp(_, _, _, _, _, _)
RECURSIVE ContCmp(_, _, _, _, _)

\* getattr(row, name, None) on the field map of a row (abc.py:315-318).
FieldOr(f, n) == IF n \in DOMAIN f THEN f[n] ELSE None

\* Row.compare(other, existing_only=False) on the field maps of two rows
\* (abc.py:314-318, 347-351): the names of both kinds are compared.
FieldsCmp(h, fs, fo, pref, fuel) ==
  LET outs == {CellCmp(h, FieldOr(fs, n), FieldOr(fo, n), pref, fuel) :
                 n \in DOMAIN fs \cup DOMAIN fo}
  IN IF outs \subseteq {"eq"} THEN "eq"
     ELSE IF "raise" \notin outs THEN "ne"
     ELSE IF "ne" \notin outs THEN "raise"
     ELSE pref

\* List._compare(other, existing_only=False) on two row sequences given as
\* field maps (abc.py:757-763): first difference in order decides.
RowsCmp(h, ss, os, i, pref, fuel) ==
  IF Len(ss) # Len(os) THEN "ne"
  ELSE IF i > Len(ss) THEN "eq"
  ELSE LET o == FieldsCmp(h, ss[i], os[i], pref, fuel)
       IN IF o = "eq" THEN RowsCmp(h, ss, os, i + 1, pref, fuel) ELSE o

InnerFields(h, c) == [i \in DOMAIN h.conts[c].inner |-> h.rows[h.conts[c].inner[i]].f]

\* List.__eq__ against a str (abc.py:745-749): the text is parsed into a new
\* container of the same class, then compared.
ListCmpText(h, c, code, pref, fuel) ==
  LET p == EntriesList(code)
  IN IF p.err # "" THEN "raise"
     ELSE RowsCmp(h, InnerFields(h, c),
                  [i \in DOMAIN p.stmts |-> FieldsOfStmt("ListRow", p.stmts[i])],
                  1, pref, fuel)

\* `then` when the outcome o is "eq", else o.
AndThen(o, then) == IF o = "eq" THEN then ELSE o

\* The test of `type` in List._compare and Object._compare
\* (model/__init__.py:313-318, 374-379) for self c and other o: it is made
\* when the other container is an Object or a Template, and in pattern mode
\* (existing) only when the other has a type.
TypeCmp(h, c, o, existing) ==
  IF h.conts[c].kind \in {"List", "Object", "Template"}
       /\ h.conts[o].kind \in {"Object", "Template"}
       /\ (~existing \/ h.conts[o].type # "")
       /\ h.conts[c].type # h.conts[o].type
  THEN "ne" ELSE "eq"

\* _compare(other, existing_only=False) of the container classes on two
\* containers c and o: Template._compare (model/__init__.py:451-455) first
\* compares the rows of self with the rows of other.params, then the type
\* test, then List._compare (abc.py:757-763).
ContCmp(h, c, o, pref, fuel) ==
  AndThen(IF h.conts[c].kind = "Template" /\ h.conts[o].kind = "Template"
          THEN RowsCmp(h, InnerFields(h, c), InnerFields(h, h.conts[o].params), 1, pref, fuel)
          ELSE "eq",
          AndThen(TypeCmp(h, c, o, FALSE),
                  RowsCmp(h, InnerFields(h, c), InnerFields(h, o), 1, pref, fuel)))

CellCmp(h, vs, vo, pref, fuel) ==
  CASE vs.k = "list" /\ vo.k = "list" ->
         IF fuel = 0 THEN "raise" ELSE ContCmp(h, vs.id, vo.id, pref, fuel - 1)
    [] vs.k = "list" /\ vo.k = "atom" ->
         IF fuel = 0 THEN "raise" ELSE ListCmpText(h, vs.id, vo.a, pref, fuel - 1)
    [] vs.k = "atom" /\ vo.k = "list" ->
         IF fuel = 0 THEN "raise" ELSE ListCmpText(h, vo.id, vs.a, pref, fuel - 1)
    \* len(None) in List._compare (abc.py:758)
    [] vs.k = "list" /\ vo.k = "none" -> "raise"
    [] vs.k = "none" /\ vo.k = "list" -> "raise"
    [] OTHER -> IF vs = vo THEN "eq" ELSE "ne"

\* Row.__eq__ (abc.py:382-383) as used by `a != b` on two rows.
RowCmp(h, r1, r2, pref) == FieldsCmp(h, h.rows[r1].f, h.rows[r2].f, pref, Fuel)

\* ------------------------------------------------------ pattern matching
\* compare(other, existing_only=True) of rows and containers, with the same
\* three outcomes: "eq" for True, "ne" for False, "raise".
RECURSIVE PatCell(_, _, _, _, _), PatFields(_, _, _, _, _), PatPresent(_, _, _, _, _, _)
RECURSIVE PatRows(_, _, _, _, _, _), PatCont(_, _, _, _, _)

\* next when the outcome o is "ne", else o.
OrNext(o, next) == IF o = "ne" THEN next ELSE o

\* One field of Row.compare in pattern mode (abc.py:329-346): vs is the
\* value of self, vo the value of the pattern.  A container of the pattern
\* against a field that is None iterates None (abc.py:765).
PatCell(h, vs, vo, pref, fuel) ==
  CASE vo.k = "none" -> "eq"
    [] vs.k = "list" /\ vo.k = "list" ->
         IF fuel = 0 THEN "raise" ELSE PatCont(h, vs.id, vo.id, pref, fuel - 1)
    [] vs.k = "list" -> "ne"
    [] vo.k = "list" /\ vs.k = "none" -> "raise"
    [] vo.k = "list" -> "ne"
    [] OTHER -> IF vs = vo THEN "eq" ELSE "ne"

\* Row.compare(other, existing_only=True) on the field maps of self (fs) and
\* of the pattern row (fo) (abc.py:314-346); the names form a set.
PatFields(h, fs, fo, pref, fuel) ==
  LET outs == {PatCell(h, FieldOr(fs, n), FieldOr(fo, n), pref, fuel) :
                 n \in DOMAIN fs \cup DOMAIN fo}
  IN IF outs \subseteq {"eq"} THEN "eq"
     ELSE IF "raise" \notin outs THEN "ne"
     ELSE IF "ne" \notin outs THEN "raise"
     ELSE pref

\* List.__pattern_present__ (abc.py:1034-1041) from row j of inner on.
PatPresent(h, inner, j, fo, pref, fuel) ==
  IF j > Len(inner) THEN "ne"
  ELSE OrNext(PatFields(h, h.rows[inner[j]].f, fo, pref, fuel),
              PatPresent(h, inner, j + 1, fo, pref, fuel))

\* The loop of List._compare in pattern mode (abc.py:764-768) over the
\* pattern rows pats, given as field maps, from pattern i on.
PatRows(h, c, pats, i, pref, fuel) ==
  IF i > Len(pats) THEN "eq"
  ELSE AndThen(PatPresent(h, h.conts[c].inner, 1, pats[i], pref, fuel),
               PatRows(h, c, pats, i + 1, pref, fuel))

\* _compare(other, existing_only=True) of the container classes on self c
\* and pattern container o (model/__init__.py:313-318, 374-379, 451-455).
PatCont(h, c, o, pref, fuel) ==
  AndThen(IF h.conts[c].kind = "Template" /\ h.conts[o].kind = "Template"
          THEN PatRows(h, c, InnerFields(h, h.conts[o].params), 1, pref, fuel)
          ELSE "eq",
          AndThen(TypeCmp(h, c, o, TRUE),
                  PatRows(h, c, InnerFields(h, o), 1, pref, fuel)))

\* ------------------------------------------------- assignment and copying
\* The operators below thread a state st = [h, mr, mc, err, oom] through
\* Python's control flow: h the heap, mr and mc the deepcopy memo (pairs
\* <<original, copy>> of rows and of containers), err the exception that
\* is propagating ("" for none), oom set when an allocation would exceed
\* the heap bounds of the model.
St(h) == [h |-> h, mr |-> {}, mc |-> {}, err |-> "", oom |-> FALSE]
Stopped(st) == st.err # "" \/ st.oom
Memo(m, x) == (CHOOSE p \in m : p[1] = x)[2]
InMemo(m, x) == \E p \in m : p[1] = x

RECURSIVE SetAttrSt(_, _, _, _, _), CopyListSt(_, _, _), CopyRowSt(_, _, _)
RECURSIVE CopyRowsSt(_, _, _, _, _), CopyCellsSt(_, _, _, _, _), InitFieldsSt(_, _, _, _, _)

\* Row.__ensure_requried (abc.py:473-476)
EnsureRequired(st, r) ==
  IF Stopped(st) THEN st
  ELSE IF \E i \in DOMAIN ArgsRequired(st.h.rows[r].kind) :
            st.h.rows[r].f[ArgsRequired(st.h.rows[r].kind)[i]] = None
       THEN [st EXCEPT !.err = "ValueError"]
       ELSE st

\* copy.deepcopy of a cell under the memo: [st, v].
CopiedCell(c) == [st |-> c.st, v |-> Ref(c.id)]
CopyCellSt(st, v, pref) ==
  IF IsList(v) THEN CopiedCell(CopyListSt(st, v.id, pref)) ELSE [st |-> st, v |-> v]

\* The dict comprehension of Row.__deepcopy__ (abc.py:378): the cells of
\* fields names[i..] copied in order; vals collects the copies, c is the
\* copy of cell i.
CopyCellsNext(c, r, i, vals, pref) == CopyCellsSt(c.st, r, i + 1, Append(vals, c.v), pref)
CopyCellsSt(st, r, i, vals, pref) ==
  LET names == FullArgsNames(st.h.rows[r].kind)
  IN IF i > Len(names) \/ Stopped(st) THEN [st |-> st, vals |-> vals]
     ELSE CopyCellsNext(CopyCellSt(st, st.h.rows[r].f[names[i]], pref), r, i, vals, pref)

\* The setattr loop of Row.__edit_dict (abc.py:469-470) for new.__init__(**args).
InitFieldsSt(st, r, i, vals, pref) ==
  LET names == FullArgsNames(st.h.rows[r].kind)
  IN IF i > Len(names) \/ Stopped(st) THEN st
     ELSE InitFieldsSt(SetAttrSt(st, r, names[i], vals[i], pref), r, i + 1, vals, pref)

\* new.__init__(**args) of Row.__deepcopy__ (abc.py:379) on the copied
\* cells cp = [st, vals].
CopyRowInit(cp, new, pref) ==
  [st |-> EnsureRequired(InitFieldsSt(cp.st, new, 1, cp.vals, pref), new), id |-> new]

\* Row.__deepcopy__ (abc.py:373-380), entered through copy.deepcopy, which
\* answers from the memo first.
CopyRowSt(st, r, pref) ==
  IF Stopped(st) THEN [st |-> st, id |-> 0]
  ELSE IF InMemo(st.mr, r) THEN [st |-> st, id |-> Memo(st.mr, r)]
  ELSE IF Len(st.h.rows) >= MaxRows THEN [st |-> [st EXCEPT !.oom = TRUE], id |-> 0]
  ELSE LET new == Len(st.h.rows) + 1
           st1 == [st EXCEPT !.h.rows = Append(@, NewRowRec(st.h.rows[r].kind)),
                             !.mr = @ \cup {<<r, new>>}]
       IN CopyRowInit(CopyCellsSt(st1, r, 1, <<>>, pref), new, pref)

\* copy.deepcopy(self.__inner, memo): the rows rs[i..] copied in order; c
\* is the copy of row i.
CopyRowsNext(c, rs, i, ids, pref) == CopyRowsSt(c.st, rs, i + 1, Append(ids, c.id), pref)
CopyRowsSt(st, rs, i, ids, pref) ==
  IF i > Len(rs) \/ Stopped(st) THEN [st |-> st, ids |-> ids]
  ELSE CopyRowsNext(CopyRowSt(st, rs[i], pref), rs, i, ids, pref)

\* The loop of List.__deepcopy__ (abc.py:1026-1028) on the copied rows
\* cp = [st, ids]: each copy gets the new container as its parent.
CopyListAdopt(cp, new) ==
  IF Stopped(cp.st) THEN [st |-> cp.st, id |-> 0]
  ELSE [st |-> [cp.st EXCEPT
                  !.h.conts[new].inner = cp.ids,
                  !.h.rows = SetParent(@, cp.ids, 1, new)],
        id |-> new]

\* A deep copy that leaves the attributes of the new container at their
\* defaults.
CopyNoAttrs(new, old) == new

\* The attributes the __deepcopy__ of the container classes set on the
\* result (model/__init__.py:320-324, 381-384, 457-460), old being the
\* container copied.
CopyAttrs(new, old) ==
  CASE old.kind = "List" -> [new EXCEPT !.is_root = old.is_root, !.type = old.type]
    [] old.kind \in {"Object", "Template"} -> [new EXCEPT !.type = old.type]
    [] OTHER -> new

\* result.params = copy.deepcopy(self.params, memo) of Template.__deepcopy__
\* (model/__init__.py:460), pc being the copy of the Params container.
CopyParamsSet(pc, new) ==
  IF Stopped(pc.st) THEN [st |-> pc.st, id |-> 0]
  ELSE [st |-> [pc.st EXCEPT !.h.conts[new].params = pc.id], id |-> new]

\* The __deepcopy__ of the container classes after super().__deepcopy__
\* returned cp = [st, id] for container c.
CopyListAttrs(cp, c, pref) ==
  IF Stopped(cp.st) THEN cp
  ELSE IF cp.st.h.conts[c].kind = "Template"
       THEN CopyParamsSet(
              CopyListSt([cp.st EXCEPT !.h.conts[cp.id] = CopyAttrs(@, cp.st.h.conts[c])],
                         cp.st.h.conts[c].params, pref),
              cp.id)
       ELSE [cp EXCEPT !.st.h.conts[cp.id] = CopyAttrs(@, cp.st.h.conts[c])]

\* List.__deepcopy__ (abc.py:1021-1029) and its overrides, entered through
\* copy.deepcopy.
CopyListSt(st, c, pref) ==
  IF Stopped(st) THEN [st |-> st, id |-> 0]
  ELSE IF InMemo(st.mc, c) THEN [st |-> st, id |-> Memo(st.mc, c)]
  ELSE IF Len(st.h.conts) >= MaxConts THEN [st |-> [st EXCEPT !.oom = TRUE], id |-> 0]
  ELSE CopyListAttrs(
         CopyListAdopt(
           CopyRowsSt([st EXCEPT !.h.conts = Append(@, NewContRec(st.h.conts[c].kind)),
                                 !.mc = @ \cup {<<c, Len(st.h.conts) + 1>>}],
                      st.h.conts[c].inner, 1, <<>>, pref),
           Len(st.h.conts) + 1),
         c, pref)

\* List.copy (abc.py:706-711) and Row.copy (abc.py:120-125): a deep copy
\* under a fresh memo.
ListCopy(st, c, pref) ==
  [CopyListSt([st EXCEPT !.mr = {}, !.mc = {}], c, pref) EXCEPT !.st.mr = st.mr, !.st.mc = st.mc]

RowCopy(st, r, pref) ==
  [CopyRowSt([st EXCEPT !.mr = {}, !.mc = {}], r, pref) EXCEPT !.st.mr = st.mr, !.st.mc = st.mc]

\* Whether Row.__setattr__ copies the incoming container (abc.py:397):
\* "copy", "keep" or "raise" (the exception of the comparison: TypeError
\* for len(None), BadNdfError, RecursionError).
CopyOrKeep(o) == IF o = "ne" THEN "copy" ELSE IF o = "eq" THEN "keep" ELSE "raise"
NeedsCopy(h, r, c, pref) ==
  IF ListParent(h, c) = 0 THEN "keep"
  ELSE CopyOrKeep(RowCmp(h, h.conts[c].owner, r, pref))

\* The parenting and the store of Row.__setattr__ (abc.py:399-406): the
\* incoming container gets the row as its parent, then the outgoing one
\* loses its parent, then the cell is stored.
SetAttrStore(st, r, canon, value) ==
  LET st1 == IF IsList(value) THEN [st EXCEPT !.h.conts[value.id].owner = r] ELSE st
      old == st1.h.rows[r].f[canon]
      st2 == IF IsList(old) THEN [st1 EXCEPT !.h.conts[old.id].owner = 0] ELSE st1
  IN [st2 EXCEPT !.h.rows[r].f[canon] = value]

SetAttrCopied(cp, r, canon) ==
  IF Stopped(cp.st) THEN cp.st ELSE SetAttrStore(cp.st, r, canon, Ref(cp.id))

\* Row.__setattr__ (abc.py:396-398) for a container c.
SetAttrList(st, r, canon, c, need, pref) ==
  IF need = "raise" THEN [st EXCEPT !.err = "CompareError"]
  ELSE IF need = "copy" THEN SetAttrCopied(ListCopy(st, c, pref), r, canon)
  ELSE SetAttrStore(st, r, canon, Ref(c))

\* Row.__setattr__ (abc.py:385-406) for a name of _args_names_flat.
SetAttrSt(st, r, name, value, pref) ==
  IF Stopped(st) THEN st
  ELSE IF IsList(value)
       THEN SetAttrList(st, r, Canonical(st.h.rows[r].kind, name), value.id,
                        NeedsCopy(st.h, r, value.id, pref), pref)
       ELSE SetAttrStore(st, r, Canonical(st.h.rows[r].kind, name), value)

\* ------------------------------------------------------ editing one row
\* A value that is neither str, List, pair nor None (abc.py:553-562).
BadValue == [k |-> "bad", id |-> 0, a |-> ""]

KwNames(kw) == {kw[i].n : i \in DOMAIN kw}

\* Row._merge_kwargs (abc.py:515-538): "TypeError" for too many positional
\* arguments, "clash" when a positional argument repeats a keyword, else
\* the keywords followed by the positional arguments under their names.
MergeKwargs(kind, args, kwargs) ==
  LET names == FullArgsNames(kind)
      mapped == [i \in 1..Min2(Len(args), Len(names)) |-> [n |-> names[i], v |-> args[i]]]
  IN IF Len(args) > Len(names) THEN [err |-> "TypeError", kw |-> kwargs]
     ELSE IF KwNames(mapped) \cap KwNames(kwargs) # {}
          THEN [err |-> "TypeError", kw |-> kwargs]
          ELSE [err |-> "", kw |-> kwargs \o mapped]

\* A verification that looks for a name given twice only in strict mode.
VerifyStrictOnly(kind, kw, strict) ==
  IF strict /\ (\/ \E i \in DOMAIN kw : kw[i].n \notin ArgsNamesFlat(kind) \/ kw[i].v.k = "bad"
                \/ \E g \in DOMAIN ArgsNames(kind) :
                     Cardinality(Range(ArgsNames(kind)[g]) \cap KwNames(kw)) > 1)
  THEN "TypeError"
  ELSE ""

\* Row._verify_kwargs (abc.py:540-571): the exception it raises, "" for none.
VerifyKwargs(kind, kw, strict) ==
  IF strict /\ \E i \in DOMAIN kw : kw[i].n \notin ArgsNamesFlat(kind) \/ kw[i].v.k = "bad"
  THEN "TypeError"
  ELSE IF \E g \in DOMAIN ArgsNames(kind) :
            Cardinality(Range(ArgsNames(kind)[g]) \cap KwNames(kw)) > 1
       THEN "TypeError"
       ELSE ""

\* An edit loop that raises at a name of no alias group instead of
\* skipping it.
RECURSIVE EditLoopRaising(_, _, _, _, _)
EditLoopRaising(st, r, kw, i, pref) ==
  IF i > Len(kw) \/ Stopped(st) THEN st
  ELSE IF kw[i].n \in ArgsNamesFlat(st.h.rows[r].kind)
       THEN EditLoopRaising(SetAttrSt(st, r, kw[i].n, kw[i].v, pref), r, kw, i + 1, pref)
       ELSE [st EXCEPT !.err = "TypeError"]

\* The loop of Row.__edit_dict over Row._iterate_args (abc.py:469-470,
\* 573-584): names of no alias group are skipped.
RECURSIVE EditLoopSt(_, _, _, _, _)
EditLoopSt(st, r, kw, i, pref) ==
  IF i > Len(kw) \/ Stopped(st) THEN st
  ELSE IF kw[i].n \in ArgsNamesFlat(st.h.rows[r].kind)
       THEN EditLoopSt(SetAttrSt(st, r, kw[i].n, kw[i].v, pref), r, kw, i + 1, pref)
       ELSE EditLoopSt(st, r, kw, i + 1, pref)

\* Row.__edit_dict (abc.py:460-471)
EditDictSt(st, r, kw, strict, pref) ==
  IF Stopped(st) THEN st
  ELSE IF "parent" \in KwNames(kw) /\ strict THEN [st EXCEPT !.err = "TypeError"]
  ELSE IF VerifyKwargs(st.h.rows[r].kind, kw, strict) # ""
       THEN [st EXCEPT !.err = VerifyKwargs(st.h.rows[r].kind, kw, strict)]
       ELSE EditLoopSt(st, r, kw, 1, pref)

\* Row.__edit (abc.py:417-458), the body of Row.edit and of Row.__init__.
EditSt(st, r, args, kwargs, strict, pref) ==
  IF Stopped(st) THEN st
  ELSE LET m == MergeKwargs(st.h.rows[r].kind, args, kwargs)
       IN IF m.err # "" THEN [st EXCEPT !.err = m.err]
          ELSE EnsureRequired(EditDictSt(st, r, m.kw, strict, pref), r)

\* Row.__init__ (abc.py:88-92): a new detached row of class kind.
NewRowSt(st, kind, args, kwargs, strict, pref) ==
  IF Stopped(st) THEN [st |-> st, id |-> 0]
  ELSE IF Len(st.h.rows) >= MaxRows THEN [st |-> [st EXCEPT !.oom = TRUE], id |-> 0]
  ELSE LET new == Len(st.h.rows) + 1
           st1 == [st EXCEPT !.h.rows = Append(@, NewRowRec(kind))]
       IN [st |-> EditSt(st1, new, args, kwargs, strict, pref), id |-> new]

\* ------------------------------------------------------- inputs of a call
\* One positional input of add / insert / replace / index assignment: an
\* existing row, a field mapping (with its "_strict" entry), source text,
\* or an object of no accepted type.
RowItem(r) == [t |-> "row", r |-> r, kw |-> <<>>, strict |-> TRUE, txt |-> ""]
DictItem(kw, strict) == [t |-> "dict", r |-> 0, kw |-> kw, strict |-> strict, txt |-> ""]
TextItem(txt) == [t |-> "text", r |-> 0, kw |-> <<>>, strict |-> TRUE, txt |-> txt]
JunkItem == [t |-> "junk", r |-> 0, kw |-> <<>>, strict |-> TRUE, txt |-> ""]

\* A key: an integer, a slice (start and stop are <<>> for None or <<i>>;
\* the step is always None) or an iterable of integers.
IntKey(i) == [t |-> "int", i |-> i, start |-> <<>>, stop |-> <<>>, ks |-> <<>>]
SliceKey(a, b) == [t |-> "slice", i |-> 0, start |-> a, stop |-> b, ks |-> <<>>]
IterKey(ks) == [t |-> "iter", i |-> 0, start |-> <<>>, stop |-> <<>>, ks |-> ks]

\* Python's `x or d` on an optional integer.
OrElse(x, d) == IF x = <<>> \/ x = <<0>> THEN d ELSE x[1]

\* The row type of a container class (_row_type).
RowType(ckind) ==
  CASE ckind = "List" -> "ListRow"
    [] ckind = "Object" -> "MemberRow"
    [] ckind = "Template" -> "MemberRow"
    [] ckind = "Params" -> "ParamRow"
    [] ckind = "Map" -> "MapRow"

\* list indexing: the 1-based position of Python index i in a list of
\* length n, 0 for IndexError.
PyIndex(n, i) ==
  IF i >= 0 THEN (IF i < n THEN i + 1 ELSE 0)
  ELSE (IF i + n >= 0 THEN i + n + 1 ELSE 0)

\* PySlice_AdjustIndices for step 1: the bound clamped into 0..n.
Clamp(n, i) == IF i < 0 THEN Max2(i + n, 0) ELSE Min2(i, n)

\* List._homogenize_setattr_inputs (abc.py:1044-1084).  A call is
\* [args, kw, strict, wrapped]: positional inputs, named fields with the
\* "_strict" entry, and whether the single positional argument is a Python
\* list of the inputs.  The call never uses the keyword "input".
Homogenize(call) ==
  IF (Len(call.args) > 0 \/ call.wrapped) /\ Len(call.kw) > 0
  THEN [err |-> "TypeError", args |-> <<>>]
  ELSE IF Len(call.args) = 0 /\ Len(call.kw) = 0 /\ ~call.wrapped
       THEN [err |-> "TypeError", args |-> <<>>]
  ELSE IF Len(call.kw) > 0 THEN [err |-> "", args |-> <<DictItem(call.kw, call.strict)>>]
  ELSE [err |-> "", args |-> call.args]

\* A single-return rule that only counts the inputs.
SingleOutputAnyOne(call, args) == Len(args) = 1

\* List._possibly_single_return applied as in List.__set_rows
\* (abc.py:1115-1123).
SingleOutput(call, args) ==
  Len(args) = 1 /\ ~call.wrapped /\ args[1].t \in {"row", "dict", "text"}

\* What rows_gen yields for a row made by the row constructor, n = [st, id].
Yielded(n, cur) ==
  [st |-> n.st, done |-> Stopped(n.st), reused |-> FALSE, row |-> n.id, cur |-> cur]

\* rows_gen of List.__set_rows (abc.py:1124) over List.__yield_rows__
\* (abc.py:1086-1107): the generator is at statement cur.j of input cur.i.
\* Pull the next row: [st, done, reused, row, cur].
RECURSIVE NextRow(_, _, _, _, _)
NextRow(st, c, items, cur, pref) ==
  IF Stopped(st) \/ cur.i > Len(items)
  THEN [st |-> st, done |-> TRUE, reused |-> FALSE, row |-> 0, cur |-> cur]
  ELSE
    LET it == items[cur.i]
        kind == RowType(st.h.conts[c].kind)
        nxt == [i |-> cur.i + 1, j |-> 1]
        p == EntriesList(it.txt)
        fail(e) == [st |-> [st EXCEPT !.err = e], done |-> TRUE, reused |-> FALSE,
                    row |-> 0, cur |-> cur]
    IN CASE it.t = "row" ->
              IF st.h.rows[it.r].kind = kind
              THEN [st |-> st, done |-> FALSE, reused |-> TRUE, row |-> it.r, cur |-> nxt]
              ELSE fail("TypeError")
         [] it.t = "text" /\ p.err # "" -> fail(p.err)
         [] it.t = "text" /\ p.err = "" /\ cur.j > Len(p.stmts) ->
              NextRow(st, c, items, nxt, pref)
         [] it.t \in {"dict", "text"} ->
              Yielded(NewRowSt(st, kind, <<>>,
                               IF it.t = "dict" THEN it.kw ELSE p.stmts[cur.j],
                               IF it.t = "dict" THEN it.strict ELSE TRUE, pref),
                      IF it.t = "dict" THEN nxt ELSE [i |-> cur.i, j |-> cur.j + 1])
         [] OTHER -> fail("TypeError")

Cur0 == [i |-> 1, j |-> 1]

\* A parenting that forgets the rows taken out: only the rows in new get
\* the container as their parent.
ReparentNewOnly(h, c, old, new) == [h EXCEPT !.rows = SetParent(@, new, 1, c)]

\* Set the parent of the rows in old to None, then of those in new to c.
Reparent(h, c, old, new) ==
  [h EXCEPT !.rows = SetParent(SetParent(@, old, 1, 0), new, 1, c)]

\* The two loops of List.__set_with_slice (abc.py:1178-1195): the k-th row
\* pulled is checked against index start + k - 1 while the range lasts.
\* SliceCollect pulls row k, SlicePulled decides on its copy, SliceStored
\* appends it.
RECURSIVE SliceCollect(_, _, _, _, _, _, _, _, _)
SliceStored(cp, c, items, cur, start, stop, k, rows, pref) ==
  IF Stopped(cp.st) THEN [st |-> cp.st, rows |-> rows]
  ELSE SliceCollect(cp.st, c, items, cur, start, stop, k + 1, Append(rows, cp.id), pref)

SlicePulled(n, c, items, start, stop, k, rows, pref) ==
  LET inRange == start # stop /\ start + k - 1 < stop
      pos == PyIndex(Len(n.st.h.conts[c].inner), start + k - 1)
      copy == IF inRange
              THEN n.reused /\ n.st.h.conts[c].inner[pos] # n.row
                            /\ n.st.h.rows[n.row].parent # 0
              ELSE n.reused /\ n.st.h.rows[n.row].parent # 0
  IN IF n.done THEN [st |-> n.st, rows |-> rows]
     ELSE IF inRange /\ n.reused /\ pos = 0
          THEN [st |-> [n.st EXCEPT !.err = "IndexError"], rows |-> rows]
     ELSE SliceStored(IF copy THEN RowCopy(n.st, n.row, pref)
                      ELSE [st |-> n.st, id |-> n.row],
                      c, items, n.cur, start, stop, k, rows, pref)

SliceCollect(st, c, items, cur, start, stop, k, rows, pref) ==
  SlicePulled(NextRow(st, c, items, cur, pref), c, items, start, stop, k, rows, pref)

\* A slice assignment that also runs when the collection of the rows was
\* cut short by an exception: the rows collected so far are stored.
SliceAssignPartial(col, c, start, stop) ==
  LET inner == col.st.h.conts[c].inner
      lo == Clamp(Len(inner), start)
      hi == Max2(Clamp(Len(inner), stop), lo)
  IN [st |-> [col.st EXCEPT
                !.h = ReparentNewOnly([@ EXCEPT !.conts[c].inner =
                                         SeqSlice(inner, 0, lo) \o col.rows
                                           \o SeqSlice(inner, hi, Len(inner))],
                                      c, <<>>, col.rows)],
      rows |-> IF Stopped(col.st) THEN <<>> ELSE col.rows]

\* The slice assignment and the parenting of List.__set_with_slice
\* (abc.py:1197-1203) on the collected rows col = [st, rows].
SliceAssign(col, c, start, stop) ==
  LET inner == col.st.h.conts[c].inner
      lo == Clamp(Len(inner), start)
      hi == Max2(Clamp(Len(inner), stop), lo)
      old == SeqSlice(inner, lo, hi)
  IN IF Stopped(col.st) THEN [st |-> col.st, rows |-> <<>>]
     ELSE [st |-> [col.st EXCEPT
                     !.h = Reparent([@ EXCEPT !.conts[c].inner =
                                       SeqSlice(inner, 0, lo) \o col.rows
                                         \o SeqSlice(inner, hi, Len(inner))],
                                    c, old, col.rows)],
           rows |-> col.rows]

\* List.__set_with_slice (abc.py:1169-1203): [st, rows].
SetWithSlice(st, c, key, items, pref) ==
  LET start == OrElse(key.start, 0)
      stop == OrElse(key.stop, Len(st.h.conts[c].inner))
  IN SliceAssign(SliceCollect(st, c, items, Cur0, start, stop, 1, <<>>, pref), c, start, stop)

StopWith(s, e) == [st |-> [s EXCEPT !.err = e], rows |-> <<>>]

\* The store of List.__set_single_row (abc.py:1163-1167) of the copy
\* cp = [st, id] at 1-based position pos (0: IndexError).
SingleStore(cp, c, pos) ==
  IF Stopped(cp.st) THEN [st |-> cp.st, rows |-> <<>>]
  ELSE IF pos = 0 THEN StopWith(cp.st, "IndexError")
  ELSE [st |-> [cp.st EXCEPT
                  !.h = Reparent([@ EXCEPT !.conts[c].inner[pos] = cp.id],
                                 c, <<cp.st.h.conts[c].inner[pos]>>, <<cp.id>>)],
        rows |-> <<cp.id>>]

\* List.__set_single_row after its two next(args) (abc.py:1147-1162):
\* n1 is the first pull, n2 the second.
SinglePulled(n1, n2, c, pos, pref) ==
  IF Stopped(n1.st) THEN [st |-> n1.st, rows |-> <<>>]
  ELSE IF n1.done THEN StopWith(n1.st, "StopIteration")
  ELSE IF Stopped(n2.st) THEN [st |-> n2.st, rows |-> <<>>]
  ELSE IF ~n2.done THEN StopWith(n2.st, "ValueError")
  ELSE IF n1.reused /\ pos = 0 THEN StopWith(n2.st, "IndexError")
  ELSE IF n1.reused /\ n2.st.h.conts[c].inner[pos] = n1.row
       THEN [st |-> n2.st, rows |-> <<n1.row>>]
  ELSE SingleStore(RowCopy(n2.st, n1.row, pref), c, pos)

SingleSecond(n1, c, items, pos, pref) ==
  SinglePulled(n1, NextRow(n1.st, c, items, n1.cur, pref), c, pos, pref)

\* List.__set_single_row (abc.py:1141-1167): [st, rows] with the one row.
SetSingleRow(st, c, k, items, pref) ==
  SingleSecond(NextRow(st, c, items, Cur0, pref), c, items,
               PyIndex(Len(st.h.conts[c].inner), k), pref)

\* List.__set_with_iterable (abc.py:1205-1237).  ikey iterates the list
\* `keys` that the loop itself fills, which is empty: the loop body never
\* runs and no key is read; n is what next(args) gives at line 1228.
IterablePulled(n) ==
  IF Stopped(n.st) THEN [st |-> n.st, rows |-> <<>>]
  ELSE IF ~n.done THEN StopWith(n.st, "TypeError")
  ELSE [st |-> n.st, rows |-> <<>>]

SetWithIterable(st, c, ks, items, pref) == IterablePulled(NextRow(st, c, items, Cur0, pref))

\* The return of List.__set_rows (abc.py:1126, 1136-1139).
Returned(r, key, single) ==
  [st |-> r.st, rows |-> r.rows, single |-> IF key.t = "int" THEN TRUE ELSE Len(r.rows) = 1 /\ single]

\* List.__set_rows (abc.py:1112-1139): [st, rows, single]; single tells
\* that the one row itself is returned instead of the list of rows.
SetRows(st, c, key, args, single, pref) ==
  IF Stopped(st) THEN [st |-> st, rows |-> <<>>, single |-> FALSE]
  ELSE Returned(CASE key.t = "int" -> SetSingleRow(st, c, key.i, args, pref)
                  [] key.t = "slice" -> SetWithSlice(st, c, key, args, pref)
                  [] key.t = "iter" -> SetWithIterable(st, c, key.ks, args, pref),
                key, single)

Raise(st, e) == [st |-> [st EXCEPT !.err = e], rows |-> <<>>, single |-> FALSE]

\* List.add (abc.py:887-899)
ListAdd(st, c, call, pref) ==
  LET k == Len(st.h.conts[c].inner)
      hz == Homogenize(call)
  IN IF hz.err # "" THEN Raise(st, hz.err)
     ELSE SetRows(st, c, SliceKey(<<k>>, <<k>>), hz.args, SingleOutput(call, hz.args), pref)

\* List.insert (abc.py:910-920)
ListInsert(st, c, k, call, pref) ==
  LET hz == Homogenize(call)
  IN IF hz.err # "" THEN Raise(st, hz.err)
     ELSE SetRows(st, c, SliceKey(<<k>>, <<k>>), hz.args, SingleOutput(call, hz.args), pref)

\* List.replace (abc.py:931-947)
ListReplace(st, c, key, call, pref) ==
  LET hz == Homogenize(call)
  IN IF key.t = "slice"
        /\ OrElse(key.stop, Len(st.h.conts[c].inner)) - OrElse(key.start, 0) = 0
     THEN Raise(st, "AssertionError")
     ELSE IF hz.err # "" THEN Raise(st, hz.err)
     ELSE SetRows(st, c, key, hz.args, SingleOutput(call, hz.args), pref)

\* List.__setitem__ (abc.py:1012-1019): call.args is the tuple assigned
\* (call.wrapped: a list instead), or the one object assigned.
ListSetItem(st, c, key, call, pref) ==
  SetRows(st, c, key, call.args, SingleOutput(call, call.args), pref)

\* The loop of List.__delitem__ over an iterable key (abc.py:1005-1007):
\* each index is read and deleted in turn from the list as it then is.
RECURSIVE DelLoop(_, _, _, _, _)
DelLoop(st, c, ks, i, removed) ==
  IF i > Len(ks) THEN [st |-> st, rows |-> removed]
  ELSE LET inner == st.h.conts[c].inner
           pos == PyIndex(Len(inner), ks[i])
       IN IF pos = 0 THEN [st |-> [st EXCEPT !.err = "IndexError"], rows |-> removed]
          ELSE DelLoop([st EXCEPT !.h.conts[c].inner =
                          SeqSlice(inner, 0, pos - 1) \o SeqSlice(inner, pos, Len(inner))],
                       c, ks, i + 1, Append(removed, inner[pos]))

\* The last loop of List.__delitem__ (abc.py:1008-1010) on d = [st, rows].
Detached(d, c) ==
  IF Stopped(d.st) THEN [st |-> d.st, rows |-> <<>>, single |-> FALSE]
  ELSE [st |-> [d.st EXCEPT !.h = Reparent(@, c, d.rows, <<>>)],
        rows |-> d.rows, single |-> FALSE]

\* List.__delitem__ (abc.py:994-1010), also List.remove: [st, rows, single].
ListDelItem(st, c, key) ==
  LET inner == st.h.conts[c].inner
      len == Len(inner)
  IN CASE key.t = "int" ->
            LET pos == PyIndex(len, key.i)
            IN IF pos = 0 THEN Raise(st, "IndexError")
               ELSE [st |-> [st EXCEPT
                               !.h = Reparent([@ EXCEPT !.conts[c].inner =
                                                 SeqSlice(inner, 0, pos - 1)
                                                   \o SeqSlice(inner, pos, len)],
                                              c, <<inner[pos]>>, <<>>)],
                     rows |-> <<inner[pos]>>, single |-> TRUE]
       [] key.t = "slice" ->
            LET lo == IF key.start = <<>> THEN 0 ELSE Clamp(len, key.start[1])
                hi0 == IF key.stop = <<>> THEN len ELSE Clamp(len, key.stop[1])
                hi == Max2(hi0, lo)
                removed == SeqSlice(inner, lo, hi)
            IN [st |-> [st EXCEPT
                          !.h = Reparent([@ EXCEPT !.conts[c].inner =
                                            SeqSlice(inner, 0, lo) \o SeqSlice(inner, hi, len)],
                                         c, removed, <<>>)],
                rows |-> removed, single |-> FALSE]
       [] key.t = "iter" -> Detached(DelLoop(st, c, key.ks, 1, <<>>), c)

\* ------------------------------------------------------------------ state
\* rows, conts: the heap.  last: the operation that produced this state,
\* with its inputs, the exception it raised (err) and what it returned
\* (ret, single); last.op = "init" before any.  pre: the heap and the
\* removed rows before that operation.  removed: the rows handed back by
\* remove that are still detached.
VARIABLES rows, conts, last, pre, removed
vars == <<rows, conts, last, pre, removed>>

Heap == [rows |-> rows, conts |-> conts]
RowIds(h) == DOMAIN h.rows
ContIds(h) == DOMAIN h.conts

Call(args, kw, strict, wrapped) ==
  [args |-> args, kw |-> kw, strict |-> strict, wrapped |-> wrapped]
NoCall == Call(<<>>, <<>>, TRUE, FALSE)
NoKey == IntKey(0)
Kw(n, v) == [n |-> n, v |-> v]

Op(op, c, r, key, call, name, val, res) ==
  [op |-> op, c |-> c, r |-> r, key |-> key, call |-> call, name |-> name, val |-> val,
   err |-> res.st.err, ret |-> res.rows, single |-> res.single]

\* What every operation does to the state: one operation is applied to the
\* starting heap, and Python keeps whatever the call had changed when it
\* raised.
Commit(op, c, r, key, call, name, val, res) ==
  /\ last.op = "init"
  /\ ~res.st.oom
  /\ rows' = res.st.h.rows
  /\ conts' = res.st.h.conts
  /\ last' = Op(op, c, r, key, call, name, val, res)
  /\ pre' = [rows |-> rows, conts |-> conts, removed |-> removed]
  /\ removed' = IF op = "remove" /\ res.st.err = ""
                THEN Range(res.rows)
                ELSE {x \in removed : res.st.h.rows[x].parent = 0}

\* ------------------------------------------------------- starting heaps
\* List.__init__ (abc.py:685-687): a new detached container.
NewListSt(st, kind) ==
  [st |-> [st EXCEPT !.h.conts = Append(@, NewContRec(kind))], id |-> Len(st.h.conts) + 1]

\* Template.__init__ (model/__init__.py:447-449): a new detached Template
\* with its own empty Params container.
NewTemplateSt(st, type) ==
  [st |-> [st EXCEPT !.h.conts =
             Append(Append(@, [NewContRec("Template") EXCEPT !.type = type,
                                                             !.params = Len(st.h.conts) + 2]),
                    NewContRec("Params"))],
   id |-> Len(st.h.conts) + 1]

EmptyHeap == [rows |-> <<>>, conts |-> <<>>]
KwCall(kw) == Call(<<>>, kw, TRUE, FALSE)
ArgCall(args) == Call(args, <<>>, TRUE, FALSE)

\* The named fields of a row of class kind with the value v (the i-th row
\* added).
RowKw(kind, v, i) ==
  CASE kind = "ListRow" ->
         IF i = 1 THEN <<Kw("value", v), Kw("namespace", Atom("A"))>> ELSE <<Kw("value", v)>>
    [] kind = "MemberRow" -> <<Kw("member", Atom("m")), Kw("value", v)>>
    [] kind = "ParamRow" -> <<Kw("param", Atom("p")), Kw("value", v)>>
    [] kind = "MapRow" -> <<Kw("key", Atom("k")), Kw("value", v)>>

\* c.add(...) of one row per value of vals, in order; no call for no value.
AddValues(st, c, vals, pref) ==
  IF vals = <<>> THEN st
  ELSE ListAdd(st, c, ArgCall([i \in DOMAIN vals |->
                                 DictItem(RowKw(RowType(st.h.conts[c].kind), vals[i], i), TRUE)]),
               pref).st

\* The attributes type and is_root given to the constructor of container c
\* (model/__init__.py:308-311, 369-372, 447-449).
WithAttrs(st, c, type, root) ==
  CASE st.h.conts[c].kind = "List" -> [st EXCEPT !.h.conts[c].type = type, !.h.conts[c].is_root = root]
    [] st.h.conts[c].kind \in {"Object", "Template"} -> [st EXCEPT !.h.conts[c].type = type]
    [] OTHER -> st

\* Three containers c1, c2, c3.
ThreeLists ==
  NewListSt(NewListSt(NewListSt(St(EmptyHeap), "List").st, "List").st, "List").st

\* c1 = [r1: A is c2, r3: 2], c2 = [r2: 1], r4 = ListRow(value=c3) detached,
\* built call by call.
DocAdded1 ==
  ListAdd(ThreeLists, 1, KwCall(<<Kw("value", Ref(2)), Kw("namespace", Atom("A"))>>), "ne").st
DocAdded2 == ListAdd(DocAdded1, 2, ArgCall(<<TextItem("1")>>), "ne").st
DocAdded3 == ListAdd(DocAdded2, 1, KwCall(<<Kw("value", Atom("2"))>>), "ne").st
DocHeap == NewRowSt(DocAdded3, "ListRow", <<Ref(3)>>, <<>>, TRUE, "ne").st.h

\* c1 = [r1: c2, r2: c3] with c2 and c3 empty, r3 = ListRow(value="1")
\* detached: r1 and r2 are distinct rows that are equal in every field.
TwinAdded1 == ListAdd(ThreeLists, 1, KwCall(<<Kw("value", Ref(2))>>), "ne").st
TwinAdded2 == ListAdd(TwinAdded1, 1, KwCall(<<Kw("value", Ref(3))>>), "ne").st
TwinHeap == NewRowSt(TwinAdded2, "ListRow", <<Atom("1")>>, <<>>, TRUE, "ne").st.h

\* c1 = [r1: 1, r2: 2, r3: A is 1], c2 = [] and c3 = [] detached.
FlatAdded1 == ListAdd(ThreeLists, 1, ArgCall(<<TextItem("1, 2")>>), "ne").st
FlatHeap == ListAdd(FlatAdded1, 1, ArgCall(<<TextItem("A is 1")>>), "ne").st.h

\* FlatHeap after r = c1.remove(1): c1 = [r1: 1, r3: A is 1], r2 detached.
RemovedHeap == ListDelItem(St(FlatHeap), 1, IntKey(1))

\* DocHeap after r = c1.remove(0): c1 = [r3: 2], r1 (A is c2) detached.
RemovedDocHeap == ListDelItem(St(DocHeap), 1, IntKey(0))

Start(h, rem) == [h |-> h, removed |-> rem]
StartStates ==
  { Start(DocHeap, {}), Start(TwinHeap, {}), Start(FlatHeap, {}),
    Start(RemovedHeap.st.h, Range(RemovedHeap.rows)),
    Start(RemovedDocHeap.st.h, Range(RemovedDocHeap.rows)) }

NoRows(st) == [st |-> st, rows |-> <<>>, single |-> FALSE]

Init ==
  /\ \E s \in StartStates : rows = s.h.rows /\ conts = s.h.conts /\ removed = s.removed
  /\ last = Op("init", 0, 0, NoKey, NoCall, "", None, NoRows(St(EmptyHeap)))
  /\ pre = [rows |-> <<>>, conts |-> <<>>, removed |-> {}]

\* ------------------------------------------------------------ the inputs
Prefs == {"ne", "raise"}

\* Values assigned to a row's value field.
ValueInputs == {None, Atom("1")} \cup {Ref(c) : c \in ContIds(Heap)}

\* Named fields of Row(...), edit(...), add(...), insert(...), replace(...).
GoodKws ==
  { <<Kw("value", Atom("1"))>>,
    <<Kw("v", Atom("2")), Kw("n", Atom("A"))>> }
ClashKws ==
  { <<Kw("value", Atom("1")), Kw("v", Atom("2"))>>,
    <<Kw("v", Atom("2")), Kw("n", Atom("A")), Kw("namespace", Atom("A"))>> }
UnknownKws ==
  { <<Kw("value", Atom("2")), Kw("junk", Atom("1"))>>,
    <<Kw("junk", Atom("1")), Kw("n", Atom("B"))>> }
MissingKws == { <<Kw("n", Atom("A"))>> }
AllKws == GoodKws \cup ClashKws \cup UnknownKws \cup MissingKws

Texts == {"1", "1, 2", "", "A is"}

\* The calls of add / insert / replace: one input, two inputs, a list of
\* inputs, named fields, and the malformed combinations.
RowCalls ==
  {ArgCall(<<RowItem(r)>>) : r \in RowIds(Heap)}
    \cup {ArgCall(<<RowItem(r), RowItem(q)>>) : r \in RowIds(Heap), q \in RowIds(Heap)}
    \cup {Call(<<RowItem(r)>>, <<>>, TRUE, TRUE) : r \in RowIds(Heap)}
OtherCalls ==
  {ArgCall(<<DictItem(kw, s)>>) : kw \in AllKws, s \in BOOLEAN}
    \cup {Call(<<>>, kw, s, FALSE) : kw \in AllKws, s \in BOOLEAN}
    \cup {ArgCall(<<TextItem(t)>>) : t \in Texts}
    \cup {ArgCall(<<DictItem(kw, TRUE), TextItem(t)>>) : kw \in GoodKws, t \in Texts}
    \cup {ArgCall(<<TextItem("1"), DictItem(kw, TRUE)>>) : kw \in AllKws}
    \cup {ArgCall(<<JunkItem>>), ArgCall(<<>>), Call(<<>>, <<>>, TRUE, TRUE),
          Call(<<TextItem("1")>>, <<Kw("value", Atom("1"))>>, TRUE, FALSE)}
    \cup {ArgCall(<<DictItem(<<Kw("value", Ref(c))>>, TRUE)>>) : c \in ContIds(Heap)}
Calls == RowCalls \cup OtherCalls

\* Keys of replace, index assignment and remove.
Indices == {-1, 0, 1, 2}
Bounds == {<<>>} \cup {<<i>> : i \in Indices}
Keys ==
  {IntKey(i) : i \in Indices}
    \cup {SliceKey(a, b) : a \in Bounds, b \in Bounds}
    \cup {IterKey(ks) : ks \in {<<0>>, <<0, 1>>, <<1, 0>>, <<0, 2>>}}

\* ---------------------------------------------------------------- actions
\* row.<name> = v  (Row.__setattr__)
Assign ==
  /\ last.op = "init"
  /\ \E r \in RowIds(Heap), name \in {"value", "v"}, v \in ValueInputs, pref \in Prefs :
    Commit("assign", 0, r, NoKey, NoCall, name, v,
           NoRows(SetAttrSt(St(Heap), r, name, v, pref)))

\* Arguments of Row(...) and row.edit(...): positional cells, named
\* fields, _strict.
EditCalls(r) ==
  {Call(<<>>, kw, st, FALSE) : kw \in AllKws, st \in BOOLEAN}
    \cup {Call(<<Atom("1")>>, kw, st, FALSE) :
            kw \in {<<Kw("v", Atom("2"))>>, <<Kw("value", Atom("2"))>>, <<Kw("n", Atom("A"))>>},
            st \in BOOLEAN}
    \cup {Call(<<>>, <<Kw("value", v)>>, TRUE, FALSE) : v \in ValueInputs \cup {BadValue}}
    \cup {Call(<<>>, <<Kw("v", Atom("1")), Kw("parent", None)>>, st, FALSE) : st \in BOOLEAN}

\* row.edit(*args, **kwargs)  (Row.edit, abc.py:127-161)
Edit ==
  /\ last.op = "init"
  /\ \E r \in RowIds(Heap), pref \in Prefs : \E ec \in EditCalls(r) :
    Commit("edit", 0, r, NoKey, ec, "", None,
           NoRows(EditSt(St(Heap), r, ec.args, ec.kw, ec.strict, pref)))

\* ListRow(*args, **kwargs)  (Row.__init__, abc.py:88-92)
Construct ==
  /\ last.op = "init"
  /\ \E pref \in Prefs : \E ec \in EditCalls(0) :
    LET n == NewRowSt(St(Heap), "ListRow", ec.args, ec.kw, ec.strict, pref)
    IN Commit("new", 0, n.id, NoKey, ec, "", None, NoRows(n.st))

\* Whether a call hands over a container inside a field mapping: only then
\* can the order of a comparison matter.
CallPrefs(call) ==
  IF (\E i \in DOMAIN call.args : \E j \in DOMAIN call.args[i].kw : IsList(call.args[i].kw[j].v))
     \/ (\E j \in DOMAIN call.kw : IsList(call.kw[j].v))
  THEN Prefs ELSE {"ne"}

BasicKeys == {IntKey(0), SliceKey(<<0>>, <<1>>), SliceKey(<<1>>, <<>>), IterKey(<<0>>)}
OnlyRows(call) ==
  /\ Len(call.args) > 0
  /\ Len(call.kw) = 0
  /\ \A i \in DOMAIN call.args : call.args[i].t = "row"
BasicCall(call) ==
  \/ OnlyRows(call) /\ Len(call.args) = 1 /\ ~call.wrapped
  \/ call = ArgCall(<<TextItem("1, 2")>>)
  \/ call = KwCall(<<Kw("value", Atom("1"))>>)

\* c.add(...)  (List.add)
Add ==
  /\ last.op = "init"
  /\ \E c \in ContIds(Heap), call \in Calls : \E pref \in CallPrefs(call) :
    Commit("add", c, 0, NoKey, call, "", None, ListAdd(St(Heap), c, call, pref))

\* c.insert(k, ...)  (List.insert)
Insert ==
  /\ last.op = "init"
  /\ \E c \in ContIds(Heap), k \in Indices, call \in Calls : \E pref \in CallPrefs(call) :
    /\ k = 1 \/ BasicCall(call) \/ OnlyRows(call)
    /\ Commit("insert", c, 0, IntKey(k), call, "", None, ListInsert(St(Heap), c, k, call, pref))

\* c.replace(key, ...)  (List.replace)
Replace ==
  /\ last.op = "init"
  /\ \E c \in ContIds(Heap), key \in Keys, call \in Calls : \E pref \in CallPrefs(call) :
    /\ key \in BasicKeys \/ BasicCall(call)
    /\ Commit("replace", c, 0, key, call, "", None, ListReplace(St(Heap), c, key, call, pref))

\* c[key] = value  (List.__setitem__)
SetItem ==
  /\ last.op = "init"
  /\ \E c \in ContIds(Heap), key \in Keys, call \in Calls : \E pref \in CallPrefs(call) :
    /\ Len(call.kw) = 0
    /\ key \in BasicKeys \/ BasicCall(call)
    /\ Commit("setitem", c, 0, key, call, "", None, ListSetItem(St(Heap), c, key, call, pref))

\* c.remove(key), del c[key]  (List.remove, List.__delitem__)
Remove ==
  /\ last.op = "init"
  /\ \E c \in ContIds(Heap), key \in Keys :
    Commit("remove", c, 0, key, NoCall, "", None, ListDelItem(St(Heap), c, key))

Next == Assign \/ Edit \/ Construct \/ Add \/ Insert \/ Replace \/ SetItem \/ Remove


Spec == Init /\ [][Next]_vars

\* ------------------------------------------------------------ observations
\* The rows one of whose fields holds container c.
Holders(h, c) == {r \in RowIds(h) : \E n \in DOMAIN h.rows[r].f : h.rows[r].f[n] = Ref(c)}

\* The containers held in the fields of the rows rs, and those reachable
\* from the fields of row r.
ListsOf(h, rs) == UNION {{h.rows[r].f[n].id : n \in DOMAIN h.rows[r].f} : r \in rs} \ {0}
RowsIn(h, cs) == UNION {Range(h.conts[c].inner) : c \in cs}
RECURSIVE ReachFrom(_, _, _)
ReachFrom(h, cs, fuel) ==
  LET more == cs \cup ListsOf(h, RowsIn(h, cs))
  IN IF fuel = 0 \/ more = cs THEN cs ELSE ReachFrom(h, more, fuel - 1)
Nested(h, r) == ReachFrom(h, ListsOf(h, {r}), Fuel)

\* The cell an assignment or a one-field edit stores into `value`.
ValueStored ==
  IF last.op = "assign" THEN last.val
  ELSE IF last.op = "edit" /\ last.call.args = <<>> /\ Len(last.call.kw) = 1
          /\ last.call.kw[1].n \in {"value", "v"}
       THEN last.call.kw[1].v
       ELSE None

\* The operation was add, insert or replace with a slice.
SliceStoring ==
  last.op \in {"add", "insert"} \/ (last.op = "replace" /\ last.key.t = "slice")

\* The slice of Python's list semantics that a slice key names in a list of
\* length n: <<lo, hi>> with the rows lo+1..hi (1-based) inside.
PySliceOf(key, n) ==
  LET lo == IF key.start = <<>> THEN 0 ELSE Clamp(n, key.start[1])
      hi == IF key.stop = <<>> THEN n ELSE Clamp(n, key.stop[1])
  IN <<lo, Max2(hi, lo)>>

\* ------------------------------------------------------------------ claims
\* C1: assigning a container c that is the value of a field of row r1 (in a
\* container or not) to a field of another row r2 stores in r2 a fresh copy
\* owned by r2, r1 still holds c and still owns it, and no container is the
\* field value of two rows.
C1_AssignStoresCopy ==
  (ValueStored.k = "list" /\ last.err = ""
     /\ pre.conts[ValueStored.id].owner \notin {0, last.r})
    => LET c == ValueStored.id
           r1 == pre.conts[c].owner
           c2 == rows[last.r].f["value"]
       IN /\ IsList(c2) /\ c2.id # c /\ c2.id \notin ContIds(pre)
          /\ conts[c2.id].owner = last.r
          /\ rows[r1].f = pre.rows[r1].f
          /\ conts[c].owner = r1
          /\ \A d \in ContIds(Heap) : Cardinality(Holders(Heap, d)) <= 1

\* C2: assigning to a field of row r the container the field already holds
\* (r.value = r.value, edit(value=r.value)) is a no-op: no copy is made, the
\* container is still the field's value and its owning row is still r.
C2_SelfAssignIsNoOp ==
  (ValueStored.k = "list" /\ pre.rows[last.r].f["value"] = ValueStored)
    => /\ last.err = ""
       /\ Len(conts) = Len(pre.conts) /\ Len(rows) = Len(pre.rows)
       /\ rows[last.r].f["value"] = ValueStored
       /\ ParentRow(Heap, ValueStored.id) = last.r

\* C3: a row r contained in container A and passed to add, insert or
\* slice-replace of a container B (another container, or A at another
\* position) is stored as a deep copy: the stored row is not r, shares no
\* nested container with r and has parent B, while r keeps its parent A,
\* its place among the rows of A and its field values.
C3_ContainedRowIsCopied ==
  \A i \in DOMAIN last.call.args :
    LET r == last.call.args[i].r
        A == pre.rows[r].parent
        at == IndexOf(pre.conts[A].inner, r)
        sl == PySliceOf(last.key, Len(pre.conts[A].inner))
    IN (SliceStoring /\ last.err = "" /\ OnlyRows(last.call) /\ A # 0
          /\ (last.op = "replace" /\ last.c = A => ~(sl[1] < at /\ at <= sl[2])))
         => /\ last.ret[i] # r
            /\ rows[last.ret[i]].parent = last.c
            /\ Nested(Heap, last.ret[i]) \cap ContIds(pre) = {}
            /\ rows[r].parent = A
            /\ rows[r].f = pre.rows[r].f
            /\ IndexOf(conts[A].inner, r) # 0
            /\ \A q \in Range(pre.conts[A].inner) \cap Range(conts[A].inner) :
                 (IndexOf(pre.conts[A].inner, q) < at)
                   = (IndexOf(conts[A].inner, q) < IndexOf(conts[A].inner, r))

\* C4: a detached row passed to add, insert, replace (integer index or
\* slice) or index assignment becomes owned by the container: the container
\* holds that very row object at the target position and the row's parent is
\* the container.
C4_DetachedRowIsAdopted ==
  \A i \in DOMAIN last.call.args :
    LET r == last.call.args[i].r
    IN (last.op \in {"add", "insert", "replace", "setitem"} /\ last.key.t \in {"int", "slice"}
          /\ last.err = "" /\ OnlyRows(last.call) /\ pre.rows[r].parent = 0)
         => /\ last.ret[i] = r
            /\ rows[r].parent = last.c
            /\ IndexOf(conts[last.c].inner, r) # 0
            /\ last.key.t = "int" /\ last.op \in {"replace", "setitem"}
                 => conts[last.c].inner[PyIndex(Len(pre.conts[last.c].inner), last.key.i)] = r

\* The rows a call yields, in input order: an existing row, or the field
\* mapping a new row is built from.
RECURSIVE Yields(_, _)
Yields(args, i) ==
  IF i > Len(args) THEN <<>>
  ELSE (CASE args[i].t = "row" -> <<[t |-> "row", r |-> args[i].r, kw |-> <<>>]>>
          [] args[i].t = "dict" -> <<[t |-> "kw", r |-> 0, kw |-> args[i].kw]>>
          [] args[i].t = "text" ->
               [j \in DOMAIN EntriesList(args[i].txt).stmts |->
                  [t |-> "kw", r |-> 0, kw |-> EntriesList(args[i].txt).stmts[j]]]
          [] OTHER -> <<>>) \o Yields(args, i + 1)
YieldsOf(call) ==
  Yields(IF Len(call.kw) > 0 THEN <<DictItem(call.kw, call.strict)>> ELSE call.args, 1)

\* Row s is what input y of the call became: the row itself or a copy of it,
\* or a new row with the fields of the mapping.
SameCells(h1, r1, h2, r2) ==
  \A n \in DOMAIN h1.rows[r1].f :
    IF IsList(h1.rows[r1].f[n]) THEN IsList(h2.rows[r2].f[n])
    ELSE h2.rows[r2].f[n] = h1.rows[r1].f[n]
CameFrom(s, y) ==
  IF y.t = "row" THEN s = y.r \/ (s \notin RowIds(pre) /\ SameCells(pre, y.r, Heap, s))
  ELSE /\ s \notin RowIds(pre)
       /\ \A j \in DOMAIN y.kw :
            y.kw[j].n \in ArgsNamesFlat(rows[s].kind)
              => LET cell == rows[s].f[Canonical(rows[s].kind, y.kw[j].n)]
                 IN IF IsList(y.kw[j].v) THEN IsList(cell) ELSE cell = y.kw[j].v

\* Every object that existed before the operation is as it was.
PreHeapKept ==
  /\ \A r \in RowIds(pre) : rows[r] = pre.rows[r]
  /\ \A c \in ContIds(pre) : conts[c] = pre.conts[c]

\* The names a call supplies (positional values count under the canonical
\* name of their position) hold both the canonical name and a shorthand of
\* one field.
BothNames(kind, nargs, kw) ==
  LET s == [i \in 1..Min2(nargs, Len(FullArgsNames(kind))) |-> FullArgsNames(kind)[i]]
             \o [i \in DOMAIN kw |-> kw[i].n]
  IN \E i, j \in DOMAIN s :
       /\ i # j
       /\ s[i] \in Range(FullArgsNames(kind))
       /\ s[j] \in ArgsNamesFlat(kind) \ Range(FullArgsNames(kind))
       /\ Canonical(kind, s[j]) = s[i]

\* C5: remove(i) returns the row that was at index i, detached (parent None,
\* index None, its container value reporting parent None) with its field
\* values intact; adding that row again inserts the same row object with the
\* same value object, and no copy is made.
C5_RemovedRowIsReusable ==
  /\ (last.op = "remove" /\ last.key.t = "int" /\ last.err = "")
       => LET r == pre.conts[last.c].inner[PyIndex(Len(pre.conts[last.c].inner), last.key.i)]
          IN /\ last.ret = <<r>> /\ last.single
             /\ rows[r].parent = 0 /\ RowIndex(Heap, r) = <<>>
             /\ rows[r].f = pre.rows[r].f
             /\ \A c \in ListsOf(Heap, {r}) : ListParent(Heap, c) = 0 /\ ParentRow(Heap, c) = r
             /\ IndexOf(conts[last.c].inner, r) = 0
  /\ (last.op = "add" /\ last.err = "" /\ \E r \in pre.removed : last.call = ArgCall(<<RowItem(r)>>))
       => LET r == last.call.args[1].r
          IN /\ last.ret = <<r>> /\ last.single
             /\ rows[r].parent = last.c
             /\ conts[last.c].inner = Append(pre.conts[last.c].inner, r)
             /\ rows[r].f = pre.rows[r].f
             /\ \A c \in ListsOf(Heap, {r}) : ParentRow(Heap, c) = r
             /\ Len(rows) = Len(pre.rows) /\ Len(conts) = Len(pre.conts)

\* A row handed back by remove and holding a container was added again.
C5_Witness ==
  /\ last.op = "add" /\ last.err = ""
  /\ \E r \in pre.removed : last.call = ArgCall(<<RowItem(r)>>) /\ ListsOf(pre, {r}) # {}

\* C6: remove(key) with an iterable of distinct valid indices detaches and
\* returns exactly the rows that were at those indices when the call began;
\* every other row stays in the container, owned, in its relative order.
C6_RemoveByIndexSet ==
  LET ks == last.key.ks
      inner0 == pre.conts[last.c].inner
      picked == {inner0[ks[i] + 1] : i \in DOMAIN ks}
      keep == SelectSeq(inner0, LAMBDA x : x \notin picked)
  IN (last.op = "remove" /\ last.key.t = "iter"
        /\ (\A i \in DOMAIN ks : ks[i] >= 0 /\ ks[i] < Len(inner0))
        /\ (\A i, j \in DOMAIN ks : i # j => ks[i] # ks[j]))
       => /\ last.err = ""
          /\ Range(last.ret) = picked
          /\ conts[last.c].inner = keep
          /\ \A r \in picked : rows[r].parent = 0
          /\ \A r \in Range(keep) : rows[r].parent = last.c

\* C7: insert(i, inputs) and lst[i:i] = inputs, for every valid index i
\* including 0 on a non-empty container, keep every row already in the
\* container (same objects, same order, still owned) and place the new rows
\* contiguously from index i: the length grows by the number of new rows.
C7_InsertKeepsRows ==
  LET inner0 == pre.conts[last.c].inner
      i == IF last.op = "insert" THEN last.key.i ELSE last.key.start[1]
  IN ((last.op = "insert"
         \/ (last.op = "setitem" /\ last.key.t = "slice" /\ last.key.start # <<>>
               /\ last.key.stop = last.key.start))
        /\ last.err = "" /\ i >= 0 /\ i <= Len(inner0))
       => /\ conts[last.c].inner
               = SeqSlice(inner0, 0, i) \o last.ret \o SeqSlice(inner0, i, Len(inner0))
          /\ \A r \in Range(inner0) : rows[r].parent = last.c
          /\ Len(conts[last.c].inner) = Len(inner0) + Len(last.ret)

\* C8: one add, insert or replace call either stores all of its rows or
\* raises with the row sequence of the container and the parent of every
\* contained row as before the call, whatever the cause of the failure.
C8_AllOrNothing ==
  last.op \in {"add", "insert", "replace"}
    => IF last.err # ""
       THEN /\ \A c \in ContIds(pre) : conts[c].inner = pre.conts[c].inner
            /\ \A r \in RowIds(pre) : rows[r].parent = pre.rows[r].parent
       ELSE /\ Len(last.ret) = Len(YieldsOf(last.call))
            /\ \A i \in DOMAIN last.ret :
                 /\ IndexOf(conts[last.c].inner, last.ret[i]) # 0
                 /\ rows[last.ret[i]].parent = last.c

\* A call failed on its second input after a row was built for the first.
C8_Witness ==
  /\ last.op \in {"add", "insert", "replace"} /\ last.err # ""
  /\ Len(last.call.args) = 2
  /\ Len(rows) > Len(pre.rows)

\* C9: add, insert and replace return a single row when the call gave
\* exactly one input that is an existing row, a field mapping, named fields
\* or text of exactly one statement; otherwise (two or more inputs, one
\* iterable of inputs even of length one, text of several statements) the
\* list of the stored rows in input order; replace with an integer index
\* always returns a single row.
DirectSingle(call) ==
  /\ ~call.wrapped
  /\ \/ Len(call.args) = 0 /\ Len(call.kw) > 0
     \/ /\ Len(call.args) = 1 /\ Len(call.kw) = 0
        /\ \/ call.args[1].t \in {"row", "dict"}
           \/ call.args[1].t = "text" /\ Len(EntriesList(call.args[1].txt).stmts) = 1
C10_BothNamesRaise ==
  /\ (last.op \in {"edit", "new"}
        /\ BothNames("ListRow", Len(last.call.args), last.call.kw))
       => last.err # "" /\ PreHeapKept
  /\ (last.op \in {"add", "insert", "replace"}
        /\ \/ BothNames(RowType(pre.conts[last.c].kind), 0, last.call.kw)
           \/ \E i \in DOMAIN last.call.args :
                /\ last.call.args[i].t = "dict"
                /\ BothNames(RowType(pre.conts[last.c].kind), 0, last.call.args[i].kw))
       => last.err # "" /\ PreHeapKept

\* A permissive edit gave a positional value and the shorthand of its field.
C10_Witness ==
  /\ last.op = "edit" /\ ~last.call.strict /\ last.err # ""
  /\ Len(last.call.args) = 1
  /\ BothNames("ListRow", 1, last.call.kw)

\* -------------------------------------------------- unknown field names
\* The named fields of a call without the names of no alias group.
KnownOnly(kind, kw) == SelectSeq(kw, LAMBDA x : x.n \in ArgsNamesFlat(kind))
HasUnknown(kind, kw) == \E i \in DOMAIN kw : kw[i].n \notin ArgsNamesFlat(kind)
RECURSIVE KnownItems(_, _, _)
KnownItems(kind, args, i) ==
  IF i > Len(args) THEN <<>>
  ELSE <<[args[i] EXCEPT !.kw = KnownOnly(kind, @)]>> \o KnownItems(kind, args, i + 1)
KnownCall(kind, call) ==
  [call EXCEPT !.kw = KnownOnly(kind, @), !.args = KnownItems(kind, @, 1)]
CallHasUnknown(kind, call) ==
  \/ HasUnknown(kind, call.kw)
  \/ \E i \in DOMAIN call.args : call.args[i].t = "dict" /\ HasUnknown(kind, call.args[i].kw)
CallStrict(call) ==
  IF Len(call.kw) > 0 THEN call.strict
  ELSE \E i \in DOMAIN call.args :
         call.args[i].t = "dict" /\ HasUnknown("ListRow", call.args[i].kw) /\ call.args[i].strict

\* The heap before the last operation.
PreHeap == [rows |-> pre.rows, conts |-> pre.conts]

\* The container call of the last operation, applied to the heap before it
\* with the inputs `call`.
Redo(call) ==
  CASE last.op = "add" -> ListAdd(St(PreHeap), last.c, call, "ne")
    [] last.op = "insert" -> ListInsert(St(PreHeap), last.c, last.key.i, call, "ne")
    [] last.op = "replace" -> ListReplace(St(PreHeap), last.c, last.key, call, "ne")

\* Each named field of kw that the row kind knows is what row r holds.
Applied(r, kw) ==
  \A i \in DOMAIN kw :
    kw[i].n \in ArgsNamesFlat(rows[r].kind) /\ ~IsList(kw[i].v)
      => rows[r].f[Canonical(rows[r].kind, kw[i].n)] = kw[i].v

\* C11: a field name that is neither a canonical name nor a shorthand of the
\* row kind makes edit, and add / insert / replace with named fields, raise
\* in strict mode with every existing row and container unchanged; in
\* permissive mode the name is skipped silently: the call does what the same
\* call without that name does, and an edit applies every recognized field.
C11_UnknownField ==
  /\ (last.op = "edit" /\ HasUnknown(rows[last.r].kind, last.call.kw) /\ last.call.strict)
       => last.err # "" /\ PreHeapKept
  /\ (last.op = "edit" /\ HasUnknown(rows[last.r].kind, last.call.kw) /\ ~last.call.strict
        /\ ~BothNames(rows[last.r].kind, Len(last.call.args), last.call.kw))
       => /\ last.err = ""
          /\ Applied(last.r, last.call.kw)
          /\ Heap = EditSt(St(PreHeap), last.r, last.call.args,
                           KnownOnly(rows[last.r].kind, last.call.kw), FALSE, "ne").h
  /\ (last.op \in {"add", "insert", "replace"}
        /\ CallHasUnknown(RowType(pre.conts[last.c].kind), last.call))
       => IF CallStrict(last.call)
          THEN last.err # "" /\ PreHeapKept
          ELSE /\ Heap = Redo(KnownCall(RowType(pre.conts[last.c].kind), last.call)).st.h
               /\ last.err = Redo(KnownCall(RowType(pre.conts[last.c].kind), last.call)).st.err
               /\ last.err = "" => \A i \in DOMAIN last.ret : Applied(last.ret[i], YieldsOf(last.call)[i].kw)

\* A permissive add with an unknown name stored a row with the known field.
C11_Witness ==
  /\ last.op = "add" /\ last.err = "" /\ ~last.call.strict
  /\ HasUnknown("ListRow", last.call.kw)
  /\ Len(last.ret) = 1 /\ rows[last.ret[1]].f["value"] = Atom("2")

\* ------------------------------------------------------------ alias groups
\* Row.__getattribute__ (abc.py:408-413): reading through any name of a group.
GetAttr(h, r, name) == h.rows[r].f[Canonical(h.rows[r].kind, name)]

\* c1 = [r1: ListRow(value=c2)], c2 = [r2: ListRow("1")] owned by r1;
\* r3 = MemberRow(member="m", value=c3), r4 = ParamRow(param="p"),
\* r5 = MapRow(key="k", value="1"), all three detached.
AliasHeap ==
  LET s1 == ListAdd(ThreeLists, 1, KwCall(<<Kw("value", Ref(2))>>), "ne").st
      s2 == ListAdd(s1, 2, ArgCall(<<TextItem("1")>>), "ne").st
      s3 == NewRowSt(s2, "MemberRow", <<>>, <<Kw("m", Atom("m")), Kw("v", Ref(3))>>, TRUE, "ne").st
      s4 == NewRowSt(s3, "ParamRow", <<Atom("p")>>, <<>>, TRUE, "ne").st
      s5 == NewRowSt(s4, "MapRow", <<Atom("k"), Atom("1")>>, <<>>, TRUE, "ne").st
  IN s5.h

InitAlias ==
  /\ \E h \in {AliasHeap} : rows = h.rows /\ conts = h.conts
  /\ removed = {}
  /\ last = Op("init", 0, 0, NoKey, NoCall, "", None, NoRows(St(EmptyHeap)))
  /\ pre = [rows |-> <<>>, conts |-> <<>>, removed |-> {}]

\* row.<name> = v for every name of the row's kind.
AliasAssign ==
  /\ last.op = "init"
  /\ \E r \in RowIds(Heap), v \in ValueInputs, pref \in Prefs :
       \E name \in ArgsNamesFlat(rows[r].kind) :
         Commit("assign", 0, r, NoKey, KwCall(<<Kw(name, v)>>), name, v,
                NoRows(SetAttrSt(St(Heap), r, name, v, pref)))

\* row.edit(<name>=v) for every name of the row's kind.
AliasEdit ==
  /\ last.op = "init"
  /\ \E r \in RowIds(Heap), v \in ValueInputs, pref \in Prefs :
       \E name \in ArgsNamesFlat(rows[r].kind) :
         Commit("edit", 0, r, NoKey, KwCall(<<Kw(name, v)>>), name, v,
                NoRows(EditSt(St(Heap), r, <<>>, <<Kw(name, v)>>, TRUE, pref)))

NextAlias == AliasAssign \/ AliasEdit

SpecAlias == InitAlias /\ [][NextAlias]_vars

\* The heap the last write leaves when it goes through the name b instead.
WriteVia(b, pref) ==
  IF last.op = "assign" THEN SetAttrSt(St(PreHeap), last.r, b, last.val, pref)
  ELSE EditSt(St(PreHeap), last.r, <<>>, <<Kw(b, last.val)>>, TRUE, pref)

\* C12: for every row kind and alias group, a value written through one name
\* of the group (assignment or edit) is read back through every name of the
\* group, no other field changes, and the resulting rows and containers,
\* ownership included, are those the write through any other name of the
\* group produces.
C12_AliasRoundTrip ==
  last.op \in {"assign", "edit"} =>
    \A g \in DOMAIN ArgsNames(rows[last.r].kind) :
      LET names == ArgsNames(rows[last.r].kind)[g]
          slot == names[1]
      IN last.name \in Range(names) =>
           /\ \A b \in Range(names) :
                /\ GetAttr(Heap, last.r, b) = rows[last.r].f[slot]
                /\ \E pref \in Prefs :
                     /\ WriteVia(b, pref).h = Heap
                     /\ WriteVia(b, pref).err = last.err
           /\ last.err = "" =>
                \/ rows[last.r].f[slot] = last.val
                \/ /\ IsList(last.val) /\ IsList(rows[last.r].f[slot])
                   /\ rows[last.r].f[slot].id \notin ContIds(pre)
                   /\ CellCmp(Heap, rows[last.r].f[slot], last.val, "ne", Fuel) = "eq"
           /\ \A n \in DOMAIN rows[last.r].f :
                n # slot => rows[last.r].f[n] = pre.rows[last.r].f[n]

\* A container was written through a shorthand into a row that held another
\* container and is read back through the canonical name.
C12_Witness ==
  /\ last.op = "assign" /\ last.err = "" /\ last.name = "v" /\ last.r = 3
  /\ IsList(last.val) /\ last.val # pre.rows[3].f["value"]
  /\ GetAttr(Heap, 3, "value") = rows[3].f["value"]
  /\ IsList(rows[3].f["value"]) /\ rows[3].f["value"].id \notin ContIds(pre)

\* ------------------------------------------------------- lookups by field
\* The loop of List._find_by (abc.py:1256-1259): `row_val == value` on each
\* row in order.  idx is the 1-based position found (0 for none), err is set
\* when a comparison raises.
RECURSIVE FindScan(_, _, _, _, _, _)
FindScan(h, inner, i, name, x, pref) ==
  IF i > Len(inner) THEN [err |-> "", idx |-> 0]
  ELSE CASE CellCmp(h, GetAttr(h, inner[i], name), x, pref, Fuel) = "eq" ->
              [err |-> "", idx |-> i]
         [] CellCmp(h, GetAttr(h, inner[i], name), x, pref, Fuel) = "raise" ->
              [err |-> "CompareError", idx |-> 0]
         [] OTHER -> FindScan(h, inner, i + 1, name, x, pref)

\* List._find_by (abc.py:1248-1263)
FindBy(h, c, name, x, strict, pref) ==
  IF name \notin ArgsNamesFlat(RowType(h.conts[c].kind))
  THEN [err |-> "KeyError", idx |-> 0]
  ELSE LET f == FindScan(h, h.conts[c].inner, 1, name, x, pref)
       IN IF f.err = "" /\ f.idx = 0 /\ strict THEN [err |-> "ValueError", idx |-> 0]
          ELSE f

\* by_<field>(x, strict) (model/__init__.py:335-346, 414-426, 469-482,
\* 547-556): [st, rows, single].
ByField(st, c, name, x, strict, pref) ==
  LET f == FindBy(st.h, c, name, x, strict, pref)
  IN IF f.err # "" THEN Raise(st, f.err)
     ELSE IF f.idx = 0 THEN NoRows(st)
     ELSE [st |-> st, rows |-> <<st.h.conts[c].inner[f.idx]>>, single |-> TRUE]

\* List._remove_by_cell (abc.py:1239-1246)
RemoveByCell(st, c, name, x, strict, pref) ==
  LET f == FindBy(st.h, c, name, x, strict, pref)
  IN IF f.err # "" THEN Raise(st, f.err)
     ELSE IF f.idx = 0 THEN NoRows(st)
     ELSE ListDelItem(st, c, IntKey(f.idx - 1))

\* The fields the container classes offer a lookup for.
ByFields(ckind) ==
  CASE ckind = "List" -> {"namespace"}
    [] ckind \in {"Object", "Template"} -> {"namespace", "member"}
    [] ckind = "Params" -> {"param"}
    [] ckind = "Map" -> {"key"}

\* c1 = List [r1: 1, r2: A is 2, r3: A is 1]; c2 = Map [r4: (c3, 1),
\* r5: (1, 2), r6: (2, 1)] with c3 = List [r7: 1] the key of r4;
\* c4 = Params [r8: param 1]; c5 = Object [r9: member 1].
FindHeap ==
  LET l5 == NewListSt(NewListSt(NewListSt(NewListSt(NewListSt(
              St(EmptyHeap), "List").st, "Map").st, "List").st, "Params").st, "Object").st
      s1 == ListAdd(l5, 1, ArgCall(<<TextItem("1"),
                                     DictItem(<<Kw("value", Atom("2")), Kw("n", Atom("A"))>>, TRUE),
                                     TextItem("A is 1")>>), "ne").st
      s2 == ListAdd(s1, 2, ArgCall(<<DictItem(<<Kw("key", Ref(3)), Kw("value", Atom("1"))>>, TRUE),
                                     DictItem(<<Kw("k", Atom("1")), Kw("v", Atom("2"))>>, TRUE),
                                     DictItem(<<Kw("k", Atom("2")), Kw("v", Atom("1"))>>, TRUE)>>),
                   "ne").st
      s3 == ListAdd(s2, 3, ArgCall(<<TextItem("1")>>), "ne").st
      s4 == ListAdd(s3, 4, KwCall(<<Kw("param", Atom("1"))>>), "ne").st
      s5 == ListAdd(s4, 5, KwCall(<<Kw("member", Atom("1")), Kw("value", Atom("2"))>>), "ne").st
  IN s5.h

InitFind ==
  /\ \E h \in {FindHeap} : rows = h.rows /\ conts = h.conts
  /\ removed = {}
  /\ last = Op("init", 0, 0, NoKey, NoCall, "", None, NoRows(St(EmptyHeap)))
  /\ pre = [rows |-> <<>>, conts |-> <<>>, removed |-> {}]

\* The values looked for: field texts present and absent, and texts that
\* are not ndf code.
Wanted == {Atom("1"), Atom("2"), Atom("A"), Atom("A is"), Atom("")}

\* c.by_<field>(x, strict)
By ==
  /\ last.op = "init"
  /\ \E c \in ContIds(Heap), x \in Wanted, strict \in BOOLEAN, pref \in Prefs :
       \E name \in ByFields(conts[c].kind) :
         Commit("by", c, 0, NoKey, Call(<<>>, <<>>, strict, FALSE), name, x,
                ByField(St(Heap), c, name, x, strict, pref))

\* c.remove_by_<field>(x, strict)
RemoveBy ==
  /\ last.op = "init"
  /\ \E c \in ContIds(Heap), x \in Wanted, strict \in BOOLEAN, pref \in Prefs :
       \E name \in ByFields(conts[c].kind) :
         Commit("remove_by", c, 0, NoKey, Call(<<>>, <<>>, strict, FALSE), name, x,
                RemoveByCell(St(Heap), c, name, x, strict, pref))

NextFind == By \/ RemoveBy

SpecFind == InitFind /\ [][NextFind]_vars

\* The 1-based positions of the rows of the container of the last lookup whose
\* field equals the value looked for.
Matching ==
  {i \in DOMAIN pre.conts[last.c].inner :
     CellCmp(PreHeap, GetAttr(PreHeap, pre.conts[last.c].inner[i], last.name),
             last.val, "ne", Fuel) = "eq"}
FirstMatching == CHOOSE i \in Matching : \A j \in Matching : i <= j

\* C13: by_<field>(x, strict) returns the first row in container order whose
\* field equals x; with no such row it raises if strict and returns nothing
\* otherwise, the container unchanged either way; remove_by_<field>(x, strict)
\* removes and returns exactly that first row, detached, every other row
\* staying in place.
C13_LookupByField ==
  last.op \in {"by", "remove_by"} =>
    LET inner0 == pre.conts[last.c].inner
    IN IF Matching = {}
       THEN /\ last.call.strict => last.err # ""
            /\ ~last.call.strict => last.err = "" /\ last.ret = <<>>
            /\ PreHeapKept
       ELSE /\ last.err = ""
            /\ last.ret = <<inner0[FirstMatching]>>
            /\ last.op = "by" => PreHeapKept
            /\ last.op = "remove_by" =>
                 /\ conts[last.c].inner = SeqSlice(inner0, 0, FirstMatching - 1)
                                            \o SeqSlice(inner0, FirstMatching, Len(inner0))
                 /\ rows[inner0[FirstMatching]].parent = 0
                 /\ \A r \in RowIds(pre) :
                      /\ rows[r].f = pre.rows[r].f
                      /\ r # inner0[FirstMatching] => rows[r].parent = pre.rows[r].parent

\* ------------------------------------------------------------ comparisons
\* List.compare(other, existing_only) (abc.py:713-749) for a pattern that
\* is a container (a "list" cell) or source text (an "atom" cell, parsed
\* into a new container of the class of self with the default attributes).
ListCompare(h, c, other, existing, pref) ==
  CASE other.k = "list" ->
         IF existing THEN PatCont(h, c, other.id, pref, Fuel)
         ELSE ContCmp(h, c, other.id, pref, Fuel)
    [] other.k = "atom" ->
         IF EntriesList(other.a).err # "" THEN "raise"
         ELSE IF existing
         THEN PatRows(h, c, [i \in DOMAIN EntriesList(other.a).stmts |->
                               FieldsOfStmt(RowType(h.conts[c].kind), EntriesList(other.a).stmts[i])],
                      1, pref, Fuel)
         ELSE RowsCmp(h, InnerFields(h, c),
                      [i \in DOMAIN EntriesList(other.a).stmts |->
                         FieldsOfStmt(RowType(h.conts[c].kind), EntriesList(other.a).stmts[i])],
                      1, pref, Fuel)

\* The exception a comparison with outcome "raise" ends with: that of the
\* parser for text that is not ndf code, TypeError otherwise.
CompareErr(other) ==
  IF other.k = "atom" /\ EntriesList(other.a).err # "" THEN EntriesList(other.a).err
  ELSE "TypeError"

\* The result of a call that answers True or False (in `single`) or raises.
Answer(st, o, e) ==
  [st |-> [st EXCEPT !.err = IF o = "raise" THEN e ELSE ""], rows |-> <<>>, single |-> o = "eq"]

\* Nested lists: c1 = [A is 2, 2, c2], c2 = [2, 1], c3 = [c4], c4 = [2].
FourLists ==
  NewListSt(NewListSt(NewListSt(NewListSt(
    St(EmptyHeap), "List").st, "List").st, "List").st, "List").st
CmpLists2 == ListAdd(FourLists, 2, ArgCall(<<TextItem("2"), TextItem("1")>>), "ne").st
CmpLists1 ==
  ListAdd(CmpLists2, 1, ArgCall(<<DictItem(<<Kw("value", Atom("2")), Kw("n", Atom("A"))>>, TRUE),
                                  TextItem("2"),
                                  DictItem(<<Kw("value", Ref(2))>>, TRUE)>>), "ne").st
CmpLists4 == ListAdd(CmpLists1, 4, ArgCall(<<TextItem("2")>>), "ne").st
CmpLists == ListAdd(CmpLists4, 3, KwCall(<<Kw("value", Ref(4))>>), "ne").st.h

\* Typed containers: c1 = Template T [m = 1] with params c2 = [], c3 its
\* twin with params c4, c5 = Object T [m = 1], c6 = Object without a type
\* [m = 1].
TwoTemplates == NewTemplateSt(NewTemplateSt(St(EmptyHeap), "T").st, "T").st
TypedEmpty ==
  NewListSt(WithAttrs(NewListSt(TwoTemplates, "Object").st, 5, "T", FALSE), "Object").st
CmpTyped1 == AddValues(TypedEmpty, 1, <<Atom("1")>>, "ne")
CmpTyped3 == AddValues(CmpTyped1, 3, <<Atom("1")>>, "ne")
CmpTyped5 == AddValues(CmpTyped3, 5, <<Atom("1")>>, "ne")
CmpTyped == AddValues(CmpTyped5, 6, <<Atom("1")>>, "ne").h

\* Optional fields: c1 = Params [a, b = 1], c2 = Params [a = c3],
\* c3 = [1], c4 = Map [(1, 2)], c5 = Params [a].
ParamsLists ==
  NewListSt(NewListSt(NewListSt(NewListSt(NewListSt(
    St(EmptyHeap), "Params").st, "Params").st, "List").st, "Map").st, "Params").st
CmpParams1 ==
  ListAdd(ParamsLists, 1,
          ArgCall(<<DictItem(<<Kw("param", Atom("a"))>>, TRUE),
                    DictItem(<<Kw("param", Atom("b")), Kw("value", Atom("1"))>>, TRUE)>>), "ne").st
CmpParams3 == ListAdd(CmpParams1, 3, ArgCall(<<TextItem("1")>>), "ne").st
CmpParams2 == ListAdd(CmpParams3, 2, KwCall(<<Kw("param", Atom("a")), Kw("value", Ref(3))>>), "ne").st
CmpParams4 == ListAdd(CmpParams2, 4, KwCall(<<Kw("key", Atom("1")), Kw("value", Atom("2"))>>), "ne").st
CmpParams == ListAdd(CmpParams4, 5, KwCall(<<Kw("param", Atom("a"))>>), "ne").st.h

\* Templates of type T: c1 without members and with params c2 = [p], c3
\* without members and with params c4 = [], c5 = [m = 1] with params
\* c6 = [p], c7 = [m = 1] with params c8 = [p].
FourTemplates ==
  NewTemplateSt(NewTemplateSt(NewTemplateSt(NewTemplateSt(
    St(EmptyHeap), "T").st, "T").st, "T").st, "T").st
WithParams2 == AddValues(FourTemplates, 2, <<None>>, "ne")
WithParams6 == AddValues(WithParams2, 6, <<None>>, "ne")
WithParams8 == AddValues(WithParams6, 8, <<None>>, "ne")
WithMembers5 == AddValues(WithParams8, 5, <<Atom("1")>>, "ne")
CmpTemplates == AddValues(WithMembers5, 7, <<Atom("1")>>, "ne").h

\* Lists with a type: c1 = T[A is 1], c2 = [A is 1] without a type,
\* c3 = A[A is 1], c4 = T[A is 1, 2].
TypedLists ==
  WithAttrs(WithAttrs(WithAttrs(
    NewListSt(NewListSt(NewListSt(NewListSt(
      St(EmptyHeap), "List").st, "List").st, "List").st, "List").st,
    1, "T", FALSE), 3, "A", FALSE), 4, "T", FALSE)
TypedLists1 == AddValues(TypedLists, 1, <<Atom("1")>>, "ne")
TypedLists2 == AddValues(TypedLists1, 2, <<Atom("1")>>, "ne")
TypedLists3 == AddValues(TypedLists2, 3, <<Atom("1")>>, "ne")
CmpTypedLists == AddValues(TypedLists3, 4, <<Atom("1"), Atom("2")>>, "ne").h

\* A Map: c1 = MAP[(k, 1), (k, c2)], c2 = [1, 2], and the detached lists
\* c3 = [1] and c4 = [A].
MapLists ==
  NewListSt(NewListSt(NewListSt(NewListSt(
    St(EmptyHeap), "Map").st, "List").st, "List").st, "List").st
MapLists2 == ListAdd(MapLists, 2, ArgCall(<<TextItem("1, 2")>>), "ne").st
MapLists3 == ListAdd(MapLists2, 3, ArgCall(<<TextItem("1")>>), "ne").st
MapListsFilled == ListAdd(MapLists3, 4, KwCall(<<Kw("value", Atom("A"))>>), "ne").st
CmpMaps ==
  ListAdd(MapListsFilled, 1,
          ArgCall(<<DictItem(<<Kw("key", Atom("k")), Kw("value", Atom("1"))>>, TRUE),
                    DictItem(<<Kw("key", Atom("k")), Kw("value", Ref(2))>>, TRUE)>>), "ne").st.h

InitCompare ==
  /\ \E h \in {CmpLists, CmpTyped, CmpParams, CmpTemplates, CmpTypedLists, CmpMaps} :
       rows = h.rows /\ conts = h.conts
  /\ removed = {}
  /\ last = Op("init", 0, 0, NoKey, NoCall, "", None, NoRows(St(EmptyHeap)))
  /\ pre = [rows |-> <<>>, conts |-> <<>>, removed |-> {}]

\* The source texts given as patterns.
PatternTexts == {"1", "2", "A is 1", "1, 2", "2, 2", "", "A is"}

\* What a container is compared with: a container, or source text (for a
\* List, whose parser the model has).
Others(c) ==
  {Ref(o) : o \in ContIds(Heap)}
    \cup (IF conts[c].kind = "List" THEN {Atom(t) : t \in PatternTexts} ELSE {})

\* c.compare(other, existing_only); `c == other` is c.compare(other, False)
\* (abc.py:973-974).
Compare ==
  /\ last.op = "init"
  /\ \E c \in ContIds(Heap), existing \in BOOLEAN, pref \in Prefs :
       \E other \in Others(c) :
         Commit("compare", c, 0, NoKey, Call(<<>>, <<>>, existing, FALSE), "", other,
                Answer(St(Heap), ListCompare(Heap, c, other, existing, pref), CompareErr(other)))

\* dict.get(k, None) on a mapping given as a sequence of entries.
KwGet(kw, k) ==
  IF \E i \in DOMAIN kw : kw[i].n = k
  THEN kw[CHOOSE i \in DOMAIN kw : kw[i].n = k].v
  ELSE None

\* getattr(row, name, None) (abc.py:347-349): a field by any of its names,
\* the `parent` property (abc.py:116), None for a name the row does not have.
GetAttrOr(h, r, name) ==
  CASE name \in ArgsNamesFlat(h.rows[r].kind) -> GetAttr(h, r, name)
    [] name = "parent" -> IF h.rows[r].parent = 0 THEN None ELSE Ref(h.rows[r].parent)
    [] OTHER -> None

\* Row._map_args (abc.py:492-514) on the keys of a mapping: the pairs
\* [ks, ko] of a name of self and the key of the mapping it is compared
\* with, in the order of the dict built: the full names of the row class,
\* each with the last key of the mapping that denotes it (itself when there
\* is none), then the keys the row class does not know.
KeyFor(kind, kw, n) ==
  LET hits == {i \in DOMAIN kw : kw[i].n \in ArgsNamesFlat(kind) /\ Canonical(kind, kw[i].n) = n}
  IN IF hits = {} THEN n ELSE kw[CHOOSE i \in hits : \A j \in hits : j <= i].n
RECURSIVE UnknownKeys(_, _, _)
UnknownKeys(kind, kw, i) ==
  IF i > Len(kw) THEN <<>>
  ELSE (IF kw[i].n \in ArgsNamesFlat(kind) THEN <<>> ELSE <<[ks |-> kw[i].n, ko |-> kw[i].n]>>)
         \o UnknownKeys(kind, kw, i + 1)
MapArgs(kind, kw) ==
  [i \in DOMAIN FullArgsNames(kind) |->
     [ks |-> FullArgsNames(kind)[i], ko |-> KeyFor(kind, kw, FullArgsNames(kind)[i])]]
    \o UnknownKeys(kind, kw, 1)

\* The loop of Row.compare(other, existing_only=False) on a mapping
\* (abc.py:347-351), from pair i of attrs on.
RECURSIVE RowCmpMap(_, _, _, _, _, _)
RowCmpMap(h, r, kw, attrs, i, pref) ==
  IF i > Len(attrs) THEN "eq"
  ELSE AndThen(CellCmp(h, GetAttrOr(h, r, attrs[i].ks), KwGet(kw, attrs[i].ko), pref, Fuel),
               RowCmpMap(h, r, kw, attrs, i + 1, pref))

\* The field mappings rows are compared with; no two keys of a mapping
\* denote the same field.
Mappings ==
  { <<>>,
    <<Kw("value", Atom("1"))>>, <<Kw("v", Atom("1"))>>, <<Kw("v", Atom("2"))>>,
    <<Kw("v", Atom("2")), Kw("n", Atom("A"))>>,
    <<Kw("n", Atom("A")), Kw("value", Atom("2")), Kw("vis", None)>>,
    <<Kw("value", Atom("1")), Kw("junk", None)>>, <<Kw("value", Atom("1")), Kw("junk", Atom("2"))>>,
    <<Kw("value", Atom("1")), Kw("parent", None)>>,
    <<Kw("param", Atom("a"))>>, <<Kw("p", Atom("b")), Kw("v", Atom("1"))>>,
    <<Kw("m", Atom("m")), Kw("value", Atom("1"))>>,
    <<Kw("member", Atom("m")), Kw("v", Atom("1")), Kw("type", None)>>,
    <<Kw("k", Atom("1")), Kw("v", Atom("2"))>>, <<Kw("v", Atom("2")), Kw("key", Atom("1"))>> }
    \cup {<<Kw("v", Ref(c))>> : c \in ContIds(Heap)}

\* row == mapping: Row.__eq__ (abc.py:382-383) is compare(other, False).
RowEq ==
  /\ last.op = "init"
  /\ \E r \in RowIds(Heap), kw \in Mappings, pref \in Prefs :
       Commit("row_eq", 0, r, NoKey, Call(<<>>, kw, TRUE, FALSE), "", None,
              Answer(St(Heap), RowCmpMap(Heap, r, kw, MapArgs(rows[r].kind, kw), 1, pref),
                     "TypeError"))

\* The loop of Row.compare(other, existing_only=True) on a mapping
\* (abc.py:330-346), from pair i of attrs on.
RECURSIVE RowPatMap(_, _, _, _, _, _)
RowPatMap(h, r, kw, attrs, i, pref) ==
  IF i > Len(attrs) THEN "eq"
  ELSE AndThen(PatCell(h, GetAttrOr(h, r, attrs[i].ks), KwGet(kw, attrs[i].ko), pref, Fuel),
               RowPatMap(h, r, kw, attrs, i + 1, pref))

\* One step of the loop of List.match_pattern (abc.py:826-828): o is the
\* outcome of r.compare(match_item), rest what the rows after r give.
MatchStep(o, r, rest) ==
  CASE o = "raise" -> [rows |-> <<>>, err |-> "TypeError"]
    [] o = "eq" -> [rows |-> <<r>> \o rest.rows, err |-> rest.err]
    [] OTHER -> rest

\* The loop of List.match_pattern (abc.py:826-828) from row i of inner on,
\* fo the fields of match_item: the rows yielded and the exception that
\* ends the iteration ("" for none).
RECURSIVE MatchScan(_, _, _, _, _)
MatchScan(h, inner, i, fo, pref) ==
  IF i > Len(inner) THEN [rows |-> <<>>, err |-> ""]
  ELSE MatchStep(PatFields(h, h.rows[inner[i]].f, fo, pref, Fuel), inner[i],
                 MatchScan(h, inner, i + 1, fo, pref))

\* A call that yields the rows m.rows and ends with the exception m.err.
Yielding(st, m) == [st |-> [st EXCEPT !.err = m.err], rows |-> m.rows, single |-> FALSE]

\* List.match_pattern after its two next(_iter) (abc.py:815-825): n1 is the
\* first pull, n2 the second.
MatchPulled(n1, n2, c, pref) ==
  IF Stopped(n1.st) THEN NoRows(n1.st)
  ELSE IF n1.done THEN NoRows([n1.st EXCEPT !.err = "RuntimeError"])
  ELSE IF Stopped(n2.st) THEN NoRows(n2.st)
  ELSE IF ~n2.done THEN NoRows([n2.st EXCEPT !.err = "TypeError"])
  ELSE Yielding(n2.st, MatchScan(n2.st.h, n2.st.h.conts[c].inner, 1, n2.st.h.rows[n1.row].f, pref))

MatchSecond(n1, c, items, pref) ==
  MatchPulled(n1, NextRow(n1.st, c, items, n1.cur, pref), c, pref)

\* list(c.match_pattern(item)) (abc.py:770-828), the generator run to its
\* end.
MatchPattern(st, c, item, pref) ==
  MatchSecond(NextRow(st, c, <<item>>, Cur0, pref), c, <<item>>, pref)

\* The patterns rows are matched against: a row, a field mapping, source
\* text (for a List), or an object of no accepted type.
Patterns(c) ==
  {RowItem(r) : r \in RowIds(Heap)} \cup {DictItem(kw, TRUE) : kw \in Mappings} \cup {JunkItem}
    \cup (IF conts[c].kind = "List" THEN {TextItem(t) : t \in PatternTexts} ELSE {})

\* list(c.match_pattern(item))
Match ==
  /\ last.op = "init"
  /\ \E c \in ContIds(Heap), pref \in Prefs :
       \E item \in Patterns(c) :
         Commit("match", c, 0, NoKey, Call(<<item>>, <<>>, TRUE, FALSE), "", None,
                MatchPattern(St(Heap), c, item, pref))

\* One turn of the loop of MapRow.compare in pattern mode
\* (model/__init__.py:234-239) for the element v1 of the row and the
\* element v2 of the pair: an element of the pair that is None is skipped,
\* and only an element of the row that is a container is compared.
PairStep(h, v1, v2, pref) ==
  IF v2 = None THEN "eq"
  ELSE IF IsList(v1) THEN ListCompare(h, v1.id, v2, TRUE, pref)
  ELSE "eq"

\* MapRow.compare(other, existing_only) for a pair other = (k, v)
\* (model/__init__.py:224-243).
MapRowCompare(h, r, k, v, existing, pref) ==
  IF existing
  THEN AndThen(PairStep(h, h.rows[r].f.key, k, pref), PairStep(h, h.rows[r].f.value, v, pref))
  ELSE AndThen(CellCmp(h, h.rows[r].f.key, k, pref, Fuel),
               CellCmp(h, h.rows[r].f.value, v, pref, Fuel))

\* The elements of the pairs a MapRow is compared with.
PairKeys == {None, Atom("k"), Atom("1")}
PairValues == {None, Atom("1"), Atom("2"), Atom("A is")} \cup {Ref(c) : c \in ContIds(Heap)}

\* row.compare((k, v), existing_only) on a MapRow; the pair is recorded as
\* the positional arguments of the call.
ComparePair ==
  /\ last.op = "init"
  /\ \E r \in RowIds(Heap), existing \in BOOLEAN, pref \in Prefs :
       /\ rows[r].kind = "MapRow"
       /\ \E k \in PairKeys, v \in PairValues :
            Commit("compare_pair", 0, r, NoKey, Call(<<k, v>>, <<>>, existing, FALSE), "", None,
                   Answer(St(Heap), MapRowCompare(Heap, r, k, v, existing, pref), CompareErr(v)))

NextCompare == Compare \/ RowEq \/ Match \/ ComparePair

SpecCompare == InitCompare /\ [][NextCompare]_vars

\* The claimed matching rule, written from its statement: a pattern field
\* that is None matches anything, two containers match by containment, any
\* other pair must be equal.
RECURSIVE FieldMatches(_, _, _, _), RowMatches(_, _, _, _), Contains(_, _, _, _)
FieldMatches(h, vs, vp, fuel) ==
  IF vp.k = "none" THEN TRUE
  ELSE IF vs.k = "list" /\ vp.k = "list"
  THEN fuel > 0 /\ Contains(h, vs.id, InnerFields(h, vp.id), fuel - 1)
  ELSE vs = vp
RowMatches(h, fs, fp, fuel) ==
  \A n \in DOMAIN fp : FieldMatches(h, FieldOr(fs, n), fp[n], fuel)
Contains(h, c, pats, fuel) ==
  \A i \in DOMAIN pats :
    \E j \in DOMAIN h.conts[c].inner :
      RowMatches(h, h.rows[h.conts[c].inner[j]].f, pats[i], fuel)

\* The rows of the operand of the last comparison, as field maps.
OtherRows ==
  IF last.val.k = "list" THEN InnerFields(PreHeap, last.val.id)
  ELSE [i \in DOMAIN EntriesList(last.val.a).stmts |->
          FieldsOfStmt(RowType(pre.conts[last.c].kind), EntriesList(last.val.a).stmts[i])]

\* The operand of the last comparison denotes rows: a container, or text
\* that is ndf code.
OtherIsRows == last.val.k = "list" \/ EntriesList(last.val.a).err = ""

\* The operand supplies no kind-specific attribute: no type and no params.
OtherIsPlain ==
  last.val.k = "list" =>
    /\ pre.conts[last.val.id].type = ""
    /\ pre.conts[last.val.id].kind = "Template"
         => pre.conts[pre.conts[last.val.id].params].inner = <<>>

\* C14: container.compare(pattern, existing_only=true) is true iff every row
\* of the pattern matches at least one row of the container (fields of the
\* pattern that are not None are equal, a nested container is matched by the
\* same containment rule); order and multiplicity do not matter.
C14_PatternContainment ==
  (last.op = "compare" /\ last.call.strict /\ OtherIsRows /\ OtherIsPlain) =>
    /\ last.err = ""
    /\ last.single <=> Contains(PreHeap, last.c, OtherRows, Fuel)

\* Two field values are equal; None is equal only to None.
FieldSame(h, vs, vo) ==
  IF vs.k = "none" \/ vo.k = "none" THEN vs = vo
  ELSE CellCmp(h, vs, vo, "ne", Fuel) = "eq"

\* Containers c and o have the same length and their rows are equal pairwise
\* in every field.
RowsSame(h, c, o) ==
  /\ Len(h.conts[c].inner) = Len(h.conts[o].inner)
  /\ \A i \in DOMAIN h.conts[c].inner :
       \A n \in DOMAIN h.rows[h.conts[c].inner[i]].f \cup DOMAIN h.rows[h.conts[o].inner[i]].f :
         FieldSame(h, FieldOr(h.rows[h.conts[c].inner[i]].f, n),
                      FieldOr(h.rows[h.conts[o].inner[i]].f, n))

\* Containers c and o are of the same kind and have equal kind-specific
\* attributes: is_root and type, and equal params for two Templates.
SameAttrs(h, c, o) ==
  /\ h.conts[c].kind = h.conts[o].kind
  /\ h.conts[c].type = h.conts[o].type
  /\ h.conts[c].is_root = h.conts[o].is_root
  /\ h.conts[c].kind = "Template" => RowsSame(h, h.conts[c].params, h.conts[o].params)

\* C15: for two containers of the same kind with equal kind-specific
\* attributes, compare(other, existing_only=false), and ==, is true iff they
\* have the same length and their rows are equal pairwise, in order, in every
\* field, None being equal only to None.
C15_StrictEquality ==
  (last.op = "compare" /\ ~last.call.strict /\ last.val.k = "list"
     /\ SameAttrs(PreHeap, last.c, last.val.id)) =>
    /\ last.err = ""
    /\ last.single <=> RowsSame(PreHeap, last.c, last.val.id)

\* The value a mapping gives for the canonical field n of a row class, its
\* shorthand keys resolved; None for a field without a key.
Resolved(kind, kw, n) ==
  IF \E i \in DOMAIN kw : kw[i].n \in ArgsNamesFlat(kind) /\ Canonical(kind, kw[i].n) = n
  THEN kw[CHOOSE i \in DOMAIN kw : kw[i].n \in ArgsNamesFlat(kind)
                                     /\ Canonical(kind, kw[i].n) = n].v
  ELSE None

\* C16: row == mapping is compare(existing_only=false) with the shorthand
\* keys resolved: it is true iff every canonical field of the row equals the
\* value of the mapping (a missing key counting as None) and every key that
\* is not a field of the row maps to None.
C16_RowEqualsMapping ==
  last.op = "row_eq" =>
    /\ last.err = ""
    /\ last.single <=>
         /\ \A n \in DOMAIN pre.rows[last.r].f :
              FieldSame(PreHeap, pre.rows[last.r].f[n],
                        Resolved(pre.rows[last.r].kind, last.call.kw, n))
         /\ \A i \in DOMAIN last.call.kw :
              last.call.kw[i].n \notin ArgsNamesFlat(pre.rows[last.r].kind)
                => last.call.kw[i].v = None

\* The pattern of the last match_pattern and the number of rows it denotes
\* (0 for an object that denotes none).
Pattern == last.call.args[1]
Denoted ==
  CASE Pattern.t \in {"row", "dict"} -> 1
    [] Pattern.t = "text" -> Len(EntriesList(Pattern.txt).stmts)
    [] OTHER -> 0

\* The outcome of r.compare(p, existing_only=true) for row r and the
\* pattern p of the last match_pattern, text standing for its one statement.
PatternOutcome(r) ==
  CASE Pattern.t = "row" -> PatFields(PreHeap, pre.rows[r].f, pre.rows[Pattern.r].f, "ne", Fuel)
    [] Pattern.t = "dict" ->
         RowPatMap(PreHeap, r, Pattern.kw, MapArgs(pre.rows[r].kind, Pattern.kw), 1, "ne")
    [] Pattern.t = "text" ->
         PatFields(PreHeap, pre.rows[r].f,
                   FieldsOfStmt(pre.rows[r].kind, EntriesList(Pattern.txt).stmts[1]), "ne", Fuel)

\* The rows of s, in order, that match the pattern.
RECURSIVE MatchingRows(_, _)
MatchingRows(s, i) ==
  IF i > Len(s) THEN <<>>
  ELSE (IF PatternOutcome(s[i]) = "eq" THEN <<s[i]>> ELSE <<>>) \o MatchingRows(s, i + 1)

\* The container of the last operation is as it was, with everything in it.
ContainerKept ==
  /\ \A c \in ReachFrom(PreHeap, {last.c}, Fuel) : conts[c] = pre.conts[c]
  /\ \A r \in RowsIn(PreHeap, ReachFrom(PreHeap, {last.c}, Fuel)) : rows[r] = pre.rows[r]

\* C17: match_pattern(p) yields, in container order, exactly the rows r for
\* which r.compare(p, existing_only=true) is true, and leaves the container
\* unchanged; it raises when p denotes more than one row.
C17_MatchPattern ==
  last.op = "match" =>
    /\ Denoted > 1 => last.err # ""
    /\ (Denoted = 1 /\ \A r \in Range(pre.conts[last.c].inner) : PatternOutcome(r) # "raise") =>
         /\ last.err = ""
         /\ last.ret = MatchingRows(pre.conts[last.c].inner, 1)
         /\ ContainerKept

\* ---------------------------------------------------------------- copying
\* A container of class kind to copy, c1 (the params of a Template are c2,
\* holding one parameter), built after the detached list c3 = [1] (c2 for
\* the other classes) that its rows may hold.
CopyStart(kind, type, root, vals) ==
  IF kind = "Template"
  THEN AddValues(
         AddValues(
           AddValues(NewListSt(NewTemplateSt(St(EmptyHeap), type).st, "List").st,
                     3, <<Atom("1")>>, "ne"),
           2, <<Atom("2")>>, "ne"),
         1, vals, "ne").h
  ELSE AddValues(
         AddValues(NewListSt(WithAttrs(NewListSt(St(EmptyHeap), kind).st, 1, type, root), "List").st,
                   2, <<Atom("1")>>, "ne"),
         1, vals, "ne").h

\* The values of the rows of a start container; Ref(0) stands for the
\* nested list.
CopyValues ==
  { <<>>, <<Atom("1")>>, <<Ref(0)>>, <<Atom("1"), Atom("2")>>, <<Atom("2"), Ref(0)>>, <<Ref(0), Atom("1")>> }
NestedAt(kind, vals) ==
  [i \in DOMAIN vals |-> IF IsList(vals[i]) THEN Ref(IF kind = "Template" THEN 3 ELSE 2) ELSE vals[i]]

InitCopy ==
  /\ \E kind \in {"List", "Object", "Template", "Params", "Map"}, type \in {"", "T"},
        root \in BOOLEAN, vals \in CopyValues :
       \E h \in {CopyStart(kind, type, root, NestedAt(kind, vals))} :
         rows = h.rows /\ conts = h.conts
  /\ removed = {}
  /\ last = Op("init", 0, 0, NoKey, NoCall, "", None, NoRows(St(EmptyHeap)))
  /\ pre = [rows |-> <<>>, conts |-> <<>>, removed |-> {}]

\* The result of a call that returns no rows.
Plain(res) == [st |-> res.st, rows |-> <<>>, single |-> FALSE]

\* c.copy() (abc.py:706-711); the copy is the first container allocated.
Copy ==
  /\ last.op = "init"
  /\ \E c \in ContIds(Heap), pref \in Prefs :
       Commit("copy", c, 0, NoKey, NoCall, "", Ref(Len(conts) + 1),
              Plain(ListCopy(St(Heap), c, pref)))

\* r.copy() (abc.py:120-125); the copy is the first row allocated.
CopyRow ==
  /\ last.op = "init"
  /\ \E r \in RowIds(Heap), pref \in Prefs :
       Commit("copy_row", 0, r, NoKey, NoCall, "", None,
              [Plain(RowCopy(St(Heap), r, pref)) EXCEPT !.rows = <<Len(rows) + 1>>])

NextCopy == Copy \/ CopyRow

SpecCopy == InitCopy /\ [][NextCopy]_vars

\* Container n is a copy of container c made by the last operation: same
\* class and attributes, rows that are copies of the rows of c in order; row
\* m is a copy of row r held by container n: a row allocated by the
\* operation, with the same atoms and None fields, and for each container
\* field a copy of that container, allocated by the operation and owned by m.
RECURSIVE IsCopy(_, _, _), RowIsCopy(_, _, _, _)
IsCopy(c, n, fuel) ==
  /\ n > Len(pre.conts)
  /\ conts[n].kind = pre.conts[c].kind
  /\ conts[n].type = pre.conts[c].type
  /\ conts[n].is_root = pre.conts[c].is_root
  /\ Len(conts[n].inner) = Len(pre.conts[c].inner)
  /\ \A i \in DOMAIN pre.conts[c].inner :
       RowIsCopy(pre.conts[c].inner[i], conts[n].inner[i], n, fuel)
  /\ IF pre.conts[c].kind = "Template"
     THEN /\ conts[conts[n].params].owner = 0
          /\ fuel > 0 /\ IsCopy(pre.conts[c].params, conts[n].params, fuel - 1)
     ELSE conts[n].params = 0
RowIsCopy(r, m, n, fuel) ==
  /\ m > Len(pre.rows)
  /\ rows[m].kind = pre.rows[r].kind
  /\ rows[m].parent = n
  /\ \A f \in DOMAIN pre.rows[r].f :
       IF IsList(pre.rows[r].f[f])
       THEN /\ IsList(rows[m].f[f])
            /\ conts[rows[m].f[f].id].owner = m
            /\ fuel > 0 /\ IsCopy(pre.rows[r].f[f].id, rows[m].f[f].id, fuel - 1)
       ELSE rows[m].f[f] = pre.rows[r].f[f]

\* Every row and container that existed before the last operation is as it
\* was.
OriginalKept ==
  /\ \A r \in RowIds(pre) : rows[r] = pre.rows[r]
  /\ \A c \in ContIds(pre) : conts[c] = pre.conts[c]

\* C18: copy() of a container returns a new detached container of the same
\* kind with the same attributes and the same field values row by row, in
\* which every row and every nested container is a fresh copy whose parent
\* is its new holder; the original is unchanged.
C18_ContainerCopy ==
  last.op = "copy" =>
    /\ last.err = ""
    /\ last.val.id \in ContIds(Heap)
    /\ conts[last.val.id].owner = 0
    /\ IsCopy(last.c, last.val.id, Fuel)
    /\ OriginalKept

\* A Template with a type, a parameter and a row holding a list was copied.
C18_Witness ==
  /\ last.op = "copy" /\ last.err = ""
  /\ pre.conts[last.c].kind = "Template" /\ pre.conts[last.c].type = "T"
  /\ pre.conts[pre.conts[last.c].params].inner # <<>>
  /\ \E r \in Range(pre.conts[last.c].inner) : IsList(pre.rows[r].f.value)

\* --------------------------------------------------------------- printer
\* State of printer.py (printer.py:100-114): out is what was written to the
\* stream, one piece per write: [nl, ind, s] is the text s, after a line
\* break and ind indent tokens when nl.  err is the exception propagating.
line_width == 100
indent_token_len == 4
State0 == [out |-> <<>>, indent |-> 0, err |-> ""]
Write(P, s) ==
  IF P.err # "" THEN P ELSE [P EXCEPT !.out = Append(@, [nl |-> FALSE, ind |-> 0, s |-> s])]
WriteLine(P, s) ==
  IF P.err # "" THEN P ELSE [P EXCEPT !.out = Append(@, [nl |-> TRUE, ind |-> P.indent, s |-> s])]
PrintFail(P, e) == IF P.err # "" THEN P ELSE [P EXCEPT !.err = e]
SetIndent(P, n) == [P EXCEPT !.indent = n]

\* A width that forgets the indent.
SpaceLeftFlat(P) == line_width

\* State.space_left (printer.py:113-114)
SpaceLeft(P) == line_width - indent_token_len * P.indent

\* len(str(x)) of the texts the model prints.
StrLen(s) ==
  CASE s \in {"1", "2", "A", "k", "m", "p", "T"} -> 1
    [] s = "export" -> 6
    [] s = "aaaaaaaaaaaaaaaaaaaaaaaaaaaaaaaaaaaaaaaaaaaa" -> 44
    [] s = "bbbbbbbbbbbbbbbbbbbbbbbbbbbbbbbbbbbbbbbbbbbbb" -> 45
    [] s = "cccccccccccccccccccccccccccccccccccccccccccccc" -> 46
    [] s = "ddddddddddddddddddddddddddddddddddddddddddddddd" -> 47
    [] s = "eeeeeeeeeeeeeeeeeeeeeeeeeeeeeeeeeeeeeeeeeeeeeeee" -> 48
    [] s = "fffffffffffffffffffffffffffffffffffffffffffffffff" -> 49
CellLen(v) == IF v.k = "atom" THEN StrLen(v.a) ELSE 4

\* A row as a node of the tree printed.
RowNode(r) == [k |-> "row", id |-> r, a |-> ""]
RowNodes(h, c) == [i \in DOMAIN h.conts[c].inner |-> RowNode(h.conts[c].inner[i])]

\* is_multiline_needed (printer.py:204-218) from row i of inner on, total
\* being the length summed so far; the columns looked at are those of
\* item_view_columns the row class has.
RECURSIVE MultilineLoop(_, _, _, _, _)
MultilineLoop(h, P, inner, i, total) ==
  IF i > Len(inner) THEN total > SpaceLeft(P)
  ELSE IF \E n \in DOMAIN h.rows[inner[i]].f \cap {"namespace", "member", "param", "visibility"} :
            h.rows[inner[i]].f[n] # None
       THEN TRUE
  ELSE IF h.rows[inner[i]].f.value.k # "atom" THEN TRUE
  ELSE MultilineLoop(h, P, inner, i + 1, total + StrLen(h.rows[inner[i]].f.value.a) + 2)
is_multiline_needed(h, P, c) ==
  IF h.conts[c].inner = <<>> THEN FALSE ELSE MultilineLoop(h, P, h.conts[c].inner, 1, 0)

\* f"{sep} " for the separators used.
SepSpace(sep) == IF sep = "," THEN ", " ELSE " "

RECURSIVE parse(_, _, _, _), PrintItem(_, _, _, _, _), ItemLoop(_, _, _, _, _, _, _, _)
RECURSIVE print_condensed_or_multiline(_, _, _, _, _, _, _, _, _)
RECURSIVE root_assignment_printer(_, _, _, _), param_printer(_, _, _, _), member_printer(_, _, _, _)
RECURSIVE template(_, _, _, _, _), object(_, _, _, _), parse_map(_, _, _, _), parse_list(_, _, _, _)
RECURSIVE source_file(_, _, _, _, _, _), pair(_, _, _, _, _)

\* The item printers handed to print_condensed_or_multiline: parse,
\* param_printer, member_printer and map_pair_printer (printer.py:281-282).
PrintItem(h, P, node, printer, fuel) ==
  CASE printer = "param" -> param_printer(h, P, node.id, fuel)
    [] printer = "member" -> member_printer(h, P, node.id, fuel)
    [] printer = "map_pair" -> pair(h, P, h.rows[node.id].f.key, h.rows[node.id].f.value, fuel)
    [] OTHER -> parse(h, P, node, fuel)

\* The loops over items[1:] of print_condensed_or_multiline
\* (printer.py:303-306, 312-314).
ItemLoop(h, P, items, i, printer, sep, multiline, fuel) ==
  IF i > Len(items) THEN P
  ELSE ItemLoop(h, PrintItem(h, IF multiline THEN WriteLine(Write(P, sep), "")
                                ELSE Write(P, SepSpace(sep)),
                             items[i], printer, fuel),
                items, i + 1, printer, sep, multiline, fuel)

\* print_condensed_or_multiline (printer.py:285-316)
print_condensed_or_multiline(h, P, items, printer, open, close, sep, multiline, fuel) ==
  IF Len(items) = 0 THEN P
  ELSE IF multiline
  THEN WriteLine(SetIndent(ItemLoop(h, PrintItem(h, WriteLine(SetIndent(WriteLine(P, open), P.indent + 1), ""),
                                                 items[1], printer, fuel),
                                    items, 2, printer, sep, TRUE, fuel),
                           P.indent),
                 close)
  ELSE Write(SetIndent(ItemLoop(h, PrintItem(h, Write(P, open), items[1], printer, fuel),
                                items, 2, printer, sep, FALSE, fuel),
                       P.indent),
             close)

\* f"{x} " and f"{x} is " for a field that is not None, nothing otherwise.
WriteOpt(P, v, after) == IF v = None THEN P ELSE Write(Write(P, v.a), after)

\* root_assignment_printer (printer.py:221-235)
root_assignment_printer(h, P, r, fuel) ==
  IF IsList(h.rows[r].f.value) /\ h.conts[h.rows[r].f.value.id].kind = "Template"
  THEN IF h.rows[r].f.namespace = None
       THEN PrintFail(WriteOpt(P, h.rows[r].f.visibility, " "), "AssertionError")
       ELSE template(h, WriteOpt(P, h.rows[r].f.visibility, " "), h.rows[r].f.value.id,
                     h.rows[r].f.namespace.a, fuel)
  ELSE parse(h, WriteOpt(WriteOpt(P, h.rows[r].f.visibility, " "), h.rows[r].f.namespace, " is "),
             h.rows[r].f.value, fuel)

\* f": {typ}" for a type that is not None.
WriteType(P, typ) == IF typ = None THEN P ELSE Write(Write(P, ": "), typ.a)

\* param_printer (printer.py:238-248)
param_printer(h, P, r, fuel) ==
  IF h.rows[r].f.value = None
  THEN WriteType(Write(P, h.rows[r].f.param.a), h.rows[r].f.type)
  ELSE parse(h, Write(WriteType(Write(P, h.rows[r].f.param.a), h.rows[r].f.type), " = "),
             h.rows[r].f.value, fuel)

\* member_printer (printer.py:251-267)
member_printer(h, P, r, fuel) ==
  SetIndent(
    parse(h, WriteOpt(WriteOpt(IF h.rows[r].f.member = None THEN P
                               ELSE Write(WriteType(Write(P, h.rows[r].f.member.a), h.rows[r].f.type),
                                          " = "),
                               h.rows[r].f.visibility, " "),
                      h.rows[r].f.namespace, " is "),
          h.rows[r].f.value, fuel),
    P.indent)

\* An object printer that asks for the condensed form.
objectCondensed(h, P, c, fuel) ==
  IF h.conts[c].type = "" THEN PrintFail(P, "TypeError")
  ELSE IF h.conts[c].inner # <<>>
  THEN print_condensed_or_multiline(h, Write(P, h.conts[c].type), RowNodes(h, c), "member",
                                    "(", ")", "", FALSE, fuel)
  ELSE Write(Write(P, h.conts[c].type), "()")

\* object (printer.py:165-173); writing a type that is None is a TypeError
\* of the stream.
object(h, P, c, fuel) ==
  IF h.conts[c].type = "" THEN PrintFail(P, "TypeError")
  ELSE IF h.conts[c].inner # <<>>
  THEN print_condensed_or_multiline(h, Write(P, h.conts[c].type), RowNodes(h, c), "member",
                                    "(", ")", "", TRUE, fuel)
  ELSE Write(Write(P, h.conts[c].type), "()")

\* template (printer.py:152-163)
template(h, P, c, namespace, fuel) ==
  object(h,
         Write(IF h.conts[h.conts[c].params].inner # <<>>
               THEN print_condensed_or_multiline(h, Write(Write(P, "template "), namespace),
                                                 RowNodes(h, h.conts[c].params), "param",
                                                 "[", "]", ",", TRUE, fuel)
               ELSE Write(Write(Write(P, "template "), namespace), "[]"),
               " is "),
         c, fuel)

\* parse_map (printer.py:176-185)
parse_map(h, P, c, fuel) ==
  IF h.conts[c].inner # <<>>
  THEN print_condensed_or_multiline(h, Write(P, "MAP"), RowNodes(h, c), "map_pair", "[", "]", ",",
                                    is_multiline_needed(h, P, c), fuel)
  ELSE Write(Write(P, "MAP"), "[]")

\* pair (printer.py:188-197) on the tuple (k, v)
pair(h, P, k, v, fuel) ==
  print_condensed_or_multiline(h, P, <<k, v>>, "parse", "(", ")", ",",
                               IsList(k) \/ IsList(v) \/ CellLen(k) + 2 + CellLen(v) + 2 > SpaceLeft(P),
                               fuel)

\* _source_file (printer.py:118-128) from row i of inner on, indent being
\* the indent on entry.
source_file(h, P, inner, i, indent, fuel) ==
  IF i > Len(inner) THEN WriteLine(P, "")
  ELSE source_file(h,
                   IF i < Len(inner)
                   THEN WriteLine(WriteLine(SetIndent(root_assignment_printer(h, P, inner[i], fuel),
                                                      indent), ""), "")
                   ELSE SetIndent(root_assignment_printer(h, P, inner[i], fuel), indent),
                   inner, i + 1, indent, fuel)

\* parse_list and _parse_list (printer.py:131-149)
parse_list(h, P, c, fuel) ==
  IF h.conts[c].is_root THEN source_file(h, P, h.conts[c].inner, 1, P.indent, fuel)
  ELSE IF h.conts[c].inner # <<>>
  THEN print_condensed_or_multiline(h, IF h.conts[c].type # "" THEN Write(P, h.conts[c].type) ELSE P,
                                    RowNodes(h, c), "parse", "[", "]", ",",
                                    is_multiline_needed(h, P, c), fuel)
  ELSE Write(IF h.conts[c].type # "" THEN Write(P, h.conts[c].type) ELSE P, "[]")

\* parse (printer.py:319-326) with NODE_PRINTERS (printer.py:333-346): the
\* table has no entry for Params, for MapRow and for None.
parse(h, P, node, fuel) ==
  IF P.err # "" THEN P
  ELSE IF fuel = 0 THEN PrintFail(P, "RecursionError")
  ELSE CASE node.k = "atom" -> Write(P, node.a)
         [] node.k = "list" /\ h.conts[node.id].kind = "Template" -> template(h, P, node.id, "_", fuel - 1)
         [] node.k = "list" /\ h.conts[node.id].kind = "Object" -> object(h, P, node.id, fuel - 1)
         [] node.k = "list" /\ h.conts[node.id].kind = "Map" -> parse_map(h, P, node.id, fuel - 1)
         [] node.k = "list" /\ h.conts[node.id].kind = "List" -> parse_list(h, P, node.id, fuel - 1)
         [] node.k = "row" /\ h.rows[node.id].kind = "ParamRow" -> param_printer(h, P, node.id, fuel - 1)
         [] node.k = "row" /\ h.rows[node.id].kind = "MemberRow" -> member_printer(h, P, node.id, fuel - 1)
         [] node.k = "row" /\ h.rows[node.id].kind = "ListRow" ->
              root_assignment_printer(h, P, node.id, fuel - 1)
         [] OTHER -> PrintFail(P, "KeyError")

\* format (printer.py:18-48) of a tree into a fresh stream; string
\* (printer.py:74-97) returns what was written.
format(h, node) == WriteLine(parse(h, State0, node, 2 * Fuel), "")

\* The values of the rows of a list to print: texts whose lengths sum to
\* values around the widths left at the first indents.
LongTexts == {"aaaaaaaaaaaaaaaaaaaaaaaaaaaaaaaaaaaaaaaaaaaa", "bbbbbbbbbbbbbbbbbbbbbbbbbbbbbbbbbbbbbbbbbbbbb", "cccccccccccccccccccccccccccccccccccccccccccccc", "ddddddddddddddddddddddddddddddddddddddddddddddd", "eeeeeeeeeeeeeeeeeeeeeeeeeeeeeeeeeeeeeeeeeeeeeeee", "fffffffffffffffffffffffffffffffffffffffffffffffff"}
PrintValues ==
  {<<Atom(a)>> : a \in LongTexts \cup {"1"}}
    \cup {<<Atom(a), Atom(b)>> : a, b \in LongTexts}
    \cup {<<Atom("1"), Atom(a), Atom(b)>> : a, b \in {"cccccccccccccccccccccccccccccccccccccccccccccc", "ddddddddddddddddddddddddddddddddddddddddddddddd", "eeeeeeeeeeeeeeeeeeeeeeeeeeeeeeeeeeeeeeeeeeeeeeee"}}

\* The rows added to the list to print: one row per value; meta adds a
\* namespace or a visibility to the first row, or a last row holding the
\* empty list c4.
PrintRows(vals, meta) ==
  [i \in DOMAIN vals |->
     DictItem(<<Kw("value", vals[i])>>
                \o (IF i = 1 /\ meta = "namespace" THEN <<Kw("namespace", Atom("A"))>> ELSE <<>>)
                \o (IF i = 1 /\ meta = "visibility" THEN <<Kw("visibility", Atom("export"))>> ELSE <<>>),
              TRUE)]
    \o (IF meta = "container" THEN <<DictItem(<<Kw("value", Ref(4))>>, TRUE)>> ELSE <<>>)

\* c1 is the list to print, with the rows given; c2 = [c1] and c3 = [c2]
\* when it is nested depth deep; c4 = [].
PrintStart(vals, meta, depth) ==
  LET l4 == NewListSt(NewListSt(NewListSt(NewListSt(
              St(EmptyHeap), "List").st, "List").st, "List").st, "List").st
      s1 == ListAdd(l4, 1, ArgCall(PrintRows(vals, meta)), "ne").st
      s2 == IF depth >= 1 THEN ListAdd(s1, 2, KwCall(<<Kw("value", Ref(1))>>), "ne").st ELSE s1
      s3 == IF depth >= 2 THEN ListAdd(s2, 3, KwCall(<<Kw("value", Ref(2))>>), "ne").st ELSE s2
  IN s3.h

MaxDepth == 2

InitPrint ==
  /\ \/ \E vals \in PrintValues, meta \in {"none", "namespace", "visibility", "container"},
           depth \in 0..MaxDepth :
          \E h \in {PrintStart(vals, meta, depth)} : rows = h.rows /\ conts = h.conts
     \/ \E kind \in {"List", "Object", "Template", "Params", "Map"}, type \in {"", "T"},
           root \in BOOLEAN, vals \in CopyValues :
          \E h \in {CopyStart(kind, type, root, NestedAt(kind, vals))} :
            rows = h.rows /\ conts = h.conts
  /\ removed = {}
  /\ last = Op("init", 0, 0, NoKey, NoCall, "", None, NoRows(St(EmptyHeap)))
  /\ pre = [rows |-> <<>>, conts |-> <<>>, removed |-> {}]

\* What printer.string returns (in `rows`), or the exception it raises.
Printed(st, P) == [st |-> [st EXCEPT !.err = P.err], rows |-> P.out, single |-> FALSE]

\* printer.string(c) for a container c
PrintCont ==
  /\ last.op = "init"
  /\ \E c \in ContIds(Heap) :
       Commit("print", c, 0, NoKey, NoCall, "", None, Printed(St(Heap), format(Heap, Ref(c))))

\* printer.string(r) for a row r
PrintRow ==
  /\ last.op = "init"
  /\ \E r \in RowIds(Heap) :
       Commit("print", 0, r, NoKey, NoCall, "", None, Printed(St(Heap), format(Heap, RowNode(r))))

NextPrint == PrintCont \/ PrintRow

SpecPrint == InitPrint /\ [][NextPrint]_vars

\* A list that only wraps another list: a List that is not a root, with one
\* row, whose value is a List that is not a root.  Such a list is printed
\* one row per line, so what it wraps is printed one indent deeper.
Wraps(h, c) ==
  /\ Len(h.conts[c].inner) = 1
  /\ IsList(h.rows[h.conts[c].inner[1]].f.value)
  /\ h.conts[h.rows[h.conts[c].inner[1]].f.value.id].kind = "List"
  /\ ~h.conts[h.rows[h.conts[c].inner[1]].f.value.id].is_root
Wrapped(h, c) == h.rows[h.conts[c].inner[1]].f.value.id

\* The innermost list wrapped by c, and how many lists wrap it.
RECURSIVE TargetOf(_, _, _), DepthOf(_, _, _)
TargetOf(h, c, fuel) ==
  IF fuel > 0 /\ Wraps(h, c) THEN TargetOf(h, Wrapped(h, c), fuel - 1) ELSE c
DepthOf(h, c, fuel) ==
  IF fuel > 0 /\ Wraps(h, c) THEN 1 + DepthOf(h, Wrapped(h, c), fuel - 1) ELSE 0

\* The list the last print is examined for, its indent depth and its rows.
Target == TargetOf(PreHeap, last.c, Fuel)
TargetDepth == DepthOf(PreHeap, last.c, Fuel)
TargetRows == pre.conts[Target].inner

\* Every row of the target holds a text atom and has neither a namespace
\* nor a visibility; the sum over its rows of len(atom) + 2.
TargetIsPlain ==
  \A i \in DOMAIN TargetRows :
    /\ pre.rows[TargetRows[i]].f.value.k = "atom"
    /\ pre.rows[TargetRows[i]].f.namespace = None
    /\ pre.rows[TargetRows[i]].f.visibility = None
RECURSIVE AtomsWidth(_, _)
AtomsWidth(rs, i) ==
  IF i > Len(rs) THEN 0 ELSE StrLen(pre.rows[rs[i]].f.value.a) + 2 + AtomsWidth(rs, i + 1)

\* The positions in the text printed of the opening and of the closing
\* bracket of the target: each list that wraps it opened one bracket before
\* and closes one after.
TargetOpen ==
  CHOOSE k \in DOMAIN last.ret :
    /\ last.ret[k].s = "["
    /\ Cardinality({i \in 1..(k - 1) : last.ret[i].s = "["}) = TargetDepth
TargetClose ==
  CHOOSE k \in DOMAIN last.ret :
    /\ last.ret[k].s = "]"
    /\ Cardinality({i \in (k + 1)..Len(last.ret) : last.ret[i].s = "]"}) = TargetDepth

\* The target is printed on one line: no line break from its opening
\* bracket to its closing bracket.  One row per line: both brackets start a
\* line at the indent of the list, and each row starts a line one indent
\* deeper.
OnOneLine == \A i \in TargetOpen..TargetClose : ~last.ret[i].nl
RowPerLine ==
  /\ last.ret[TargetOpen].nl /\ last.ret[TargetOpen].ind = TargetDepth
  /\ last.ret[TargetClose].nl /\ last.ret[TargetClose].ind = TargetDepth
  /\ Cardinality({i \in TargetOpen..TargetClose :
                    last.ret[i].nl /\ last.ret[i].ind = TargetDepth + 1 /\ last.ret[i].s = ""})
       = Len(TargetRows)
  /\ \A i \in TargetOpen..TargetClose : last.ret[i].s = "" /\ last.ret[i].nl
       => last.ret[i].ind > TargetDepth

\* C19: a List that is not a root and whose rows all hold a text atom, with
\* no visibility and no namespace, is printed on one line iff the sum over
\* its rows of len(atom) + 2 is at most 100 - 4 * indent depth; otherwise,
\* and whenever a row has metadata or holds a container, it is printed one
\* row per line.
C19_ListLayout ==
  (last.op = "print" /\ last.c # 0 /\ pre.conts[last.c].kind = "List"
     /\ ~pre.conts[last.c].is_root /\ TargetRows # <<>>) =>
    /\ last.err = ""
    /\ IF TargetIsPlain /\ AtomsWidth(TargetRows, 1) <= 100 - 4 * TargetDepth
       THEN OnOneLine
       ELSE RowPerLine

\* A plain list two indents deep whose width is exactly the space left was
\* printed.
C19_Witness ==
  /\ last.op = "print" /\ last.c # 0 /\ last.err = ""
  /\ pre.conts[last.c].kind = "List" /\ ~pre.conts[last.c].is_root
  /\ TargetDepth = 2 /\ Len(TargetRows) = 2 /\ TargetIsPlain
  /\ AtomsWidth(TargetRows, 1) = 92
  /\ OnOneLine

\* C20: the printer produces text without raising for every entity kind
\* passed to it directly: List, Object, Template, Params, Map, ListRow,
\* MemberRow, ParamRow, MapRow.
C20_EveryKindPrints ==
  last.op = "print" => last.err = ""

\* ----------------------------------------------- the editing scenario
\* convert(b"Test is TObject(...)") (converter.py:29-55): the root list c1,
\* then the Object c2 of type TObject with one member row per value of
\* vals, named Member1, Member2, ... and typed int when typed; then the root
\* row `Test is c2`.
MemberNames == <<"Member1", "Member2">>
ParsedMembers(vals, typed) ==
  [i \in DOMAIN vals |->
     DictItem(<<Kw("value", Atom(vals[i])), Kw("member", Atom(MemberNames[i]))>>
                \o (IF typed THEN <<Kw("type", Atom("int"))>> ELSE <<>>),
              TRUE)]
ParsedRoot == WithAttrs(NewListSt(St(EmptyHeap), "List").st, 1, "", TRUE)
ParsedObject == WithAttrs(NewListSt(ParsedRoot, "Object").st, 2, "TObject", FALSE)
ParsedDoc(vals, typed) ==
  ListAdd(
    IF vals = <<>> THEN ParsedObject
    ELSE ListAdd(ParsedObject, 2, ArgCall(ParsedMembers(vals, typed)), "ne").st,
    1, KwCall(<<Kw("value", Ref(2)), Kw("namespace", Atom("Test"))>>), "ne").st.h

ScenarioValues == {<<>>, <<"1">>, <<"2">>, <<"1", "2">>, <<"2", "1">>}

InitScenario ==
  /\ \E vals \in ScenarioValues, typed \in BOOLEAN :
       \E h \in {ParsedDoc(vals, typed)} : rows = h.rows /\ conts = h.conts
  /\ removed = {}
  /\ last = Op("init", 0, 0, NoKey, NoCall, "", None, NoRows(St(EmptyHeap)))
  /\ pre = [rows |-> <<>>, conts |-> <<>>, removed |-> {}]

\* The edits of the scenario: one field by its name or by its alias.
ScenarioEdits ==
  {Call(<<>>, <<Kw(n, Atom(a))>>, TRUE, FALSE) :
     n \in {"v", "value", "m", "member", "n", "namespace"}, a \in {"1", "2", "A"}}
    \cup {Call(<<>>, <<Kw(n, None)>>, TRUE, FALSE) : n \in {"type", "value"}}

\* row.edit(**kwargs) on a row of the parsed document (Row.edit,
\* abc.py:127-161)
ScenarioEdit ==
  /\ last.op = "init"
  /\ \E r \in RowIds(Heap), ec \in ScenarioEdits :
    Commit("edit", 0, r, NoKey, ec, "", None,
           NoRows(EditSt(St(Heap), r, ec.args, ec.kw, ec.strict, "ne")))

\* printer.string(x) of a container or a row after the edit, or with no
\* edit made; the operation recorded keeps the row and the call of the edit
\* it follows, `name` telling whether there was one, and pre stays the
\* document as parsed.
ScenarioPrint ==
  /\ last.op \in {"init", "edit"}
  /\ last.err = ""
  /\ \E node \in {Ref(c) : c \in ContIds(Heap)} \cup {RowNode(r) : r \in RowIds(Heap)} :
       last' = Op("print", IF node.k = "list" THEN node.id ELSE 0, last.r, NoKey, last.call,
                  last.op, node, Printed(St(Heap), format(Heap, node)))
  /\ pre' = IF last.op = "edit" THEN pre ELSE [rows |-> rows, conts |-> conts, removed |-> removed]
  /\ UNCHANGED <<rows, conts, removed>>

NextScenario == ScenarioEdit \/ ScenarioPrint

SpecScenario == InitScenario /\ [][NextScenario]_vars

\* The text printed as lines: each line is its indent and the non-empty
\* pieces written on it, in order.
RECURSIVE LinesOf(_, _, _)
LinesOf(out, i, lines) ==
  IF i > Len(out) THEN lines
  ELSE LinesOf(out, i + 1,
               IF out[i].nl THEN Append(lines, [ind |-> out[i].ind,
                                                 parts |-> IF out[i].s = "" THEN <<>> ELSE <<out[i].s>>])
               ELSE IF out[i].s = "" THEN lines
               ELSE [lines EXCEPT ![Len(lines)].parts = Append(@, out[i].s)])
Lines == LinesOf(last.ret, 1, <<[ind |-> 0, parts |-> <<>>]>>)

\* The document parsed was `Test is TObject(Member1: int = 1)`, the edit on
\* its member row was edit(v='2'), and the object was printed.
ScenarioOfDocstring ==
  /\ last.op = "print" /\ last.name = "edit" /\ last.c = 2
  /\ Len(pre.conts[2].inner) = 1
  /\ last.r = pre.conts[2].inner[1]
  /\ pre.rows[last.r].f.value = Atom("1")
  /\ pre.rows[last.r].f.type = Atom("int")
  /\ last.call.kw = <<Kw("v", Atom("2"))>>

\* C21: parsing `Test is TObject(Member1: int = 1)`, editing its member row
\* with v='2' and printing gives `TObject(`, a line break, the member
\* `Member1: int = 2` indented by four spaces, a line break and `)`.
C21_ObjectLayout ==
  ScenarioOfDocstring =>
    /\ last.err = ""
    /\ Len(Lines) >= 3
    /\ Lines[1] = [ind |-> 0, parts |-> <<"TObject", "(">>]
    /\ Lines[2] = [ind |-> 1, parts |-> <<"Member1", ": ", "int", " = ", "2">>]
    /\ Lines[3] = [ind |-> 0, parts |-> <<")">>]

\* C21 as the code and its usage example have it: the type name `TObject`
\* is on a line of its own, the opening bracket on the next line at the same
\* indentation, then the member `Member1: int = 2` indented by four spaces
\* and the closing bracket at the indentation of the type name.
C21_ObjectLayoutOwnLine ==
  ScenarioOfDocstring =>
    /\ last.err = ""
    /\ Len(Lines) >= 4
    /\ Lines[1] = [ind |-> 0, parts |-> <<"TObject">>]
    /\ Lines[2] = [ind |-> 0, parts |-> <<"(">>]
    /\ Lines[3] = [ind |-> 1, parts |-> <<"Member1", ": ", "int", " = ", "2">>]
    /\ Lines[4] = [ind |-> 0, parts |-> <<")">>]
C21_W_DocstringPrinted ==
  /\ ScenarioOfDocstring
  /\ rows[last.r].f.value = Atom("2")
  /\ Len(Lines) >= 4

\* C22: whether a container assigned to a field of row r is copied is
\* decided by the identity of its owning row: a container owned by a row r1
\* that is another object than r and sits inside a container is stored in r
\* as a copy and stays owned by r1, also when r1 and r are equal in every
\* field.
C22_CopyByIdentity ==
  (ValueStored.k = "list" /\ last.err = ""
     /\ pre.conts[ValueStored.id].owner \notin {0, last.r}
     /\ pre.rows[pre.conts[ValueStored.id].owner].parent # 0)
    => /\ IsList(rows[last.r].f["value"])
       /\ rows[last.r].f["value"].id \notin ContIds(pre)
       /\ conts[rows[last.r].f["value"].id].owner = last.r
       /\ conts[ValueStored.id].owner = pre.conts[ValueStored.id].owner
       /\ rows[pre.conts[ValueStored.id].owner].f["value"] = ValueStored

\* C23: after add, insert, replace, remove, index assignment, edit and
\* copy, every row whose parent is a container P is found in P by identity,
\* so reading its index (Row.index, abc.py:94-113) never raises the
\* LookupError of a row that is parented but not found.
C23_ParentedRowsAreFound ==
  \A r \in RowIds(Heap) :
    rows[r].parent # 0 => IndexOf(conts[rows[r].parent].inner, r) # 0

\* C24: two Templates with the same type, pairwise equal params and
\* pairwise equal member rows compare equal under
\* compare(existing_only=false); two Templates that differ only in their
\* params compare unequal.
C24_TemplateEquality ==
  (last.op = "compare" /\ ~last.call.strict /\ last.val.k = "list"
     /\ pre.conts[last.c].kind = "Template" /\ pre.conts[last.val.id].kind = "Template"
     /\ pre.conts[last.c].type = pre.conts[last.val.id].type
     /\ RowsSame(PreHeap, last.c, last.val.id)) =>
    /\ last.err = ""
    /\ last.single <=> RowsSame(PreHeap, pre.conts[last.c].params, pre.conts[last.val.id].params)

\* C25: the type of a List takes part in its comparison with another List:
\* under existing_only=false two Lists whose type differs compare unequal,
\* and under existing_only=true the type must match whenever the type of
\* the pattern List is not None.
C25_ListTypeCompared ==
  (last.op = "compare" /\ last.val.k = "list"
     /\ pre.conts[last.c].kind = "List" /\ pre.conts[last.val.id].kind = "List"
     /\ pre.conts[last.c].type # pre.conts[last.val.id].type
     /\ (last.call.strict => pre.conts[last.val.id].type # "")) =>
    /\ last.err = ""
    /\ ~last.single

\* An element of a pair is of the sort of the element of the row it is
\* compared with: None, text for text, a container for a container.
PairOfSort(vs, vp) == vp = None \/ vp.k = vs.k

\* C26: MapRow.compare(pair, existing_only=true) against a (key, value)
\* tuple is true iff each element of the pair that is not None equals the
\* key or the value of the row respectively, a container element being
\* matched by pattern containment; a pair whose key or value text differs
\* from the row's never matches.
C26_PairPattern ==
  (last.op = "compare_pair" /\ last.call.strict
     /\ PairOfSort(pre.rows[last.r].f.key, last.call.args[1])
     /\ PairOfSort(pre.rows[last.r].f.value, last.call.args[2])) =>
    /\ last.err = ""
    /\ last.single <=>
         /\ FieldMatches(PreHeap, pre.rows[last.r].f.key, last.call.args[1], Fuel)
         /\ FieldMatches(PreHeap, pre.rows[last.r].f.value, last.call.args[2], Fuel)

\* The positions (from 1) the keys of the last call denote in the container
\* as it was, 0 for an index out of range.
KeyPositions == [j \in DOMAIN last.key.ks |-> PyIndex(Len(pre.conts[last.c].inner), last.key.ks[j])]

\* C27: replace(keys, rows) and lst[keys] = rows, with keys an iterable of k
\* distinct valid indices and k rows, set position keys[j] to rows[j] for
\* every j, detach the k displaced rows and leave all other positions
\* unchanged; the call does not raise.
C27_ReplaceByIndices ==
  (last.op \in {"replace", "setitem"} /\ last.key.t = "iter" /\ BasicCall(last.call)
     /\ Len(YieldsOf(last.call)) = Len(last.key.ks)
     /\ (\A j \in DOMAIN KeyPositions : KeyPositions[j] # 0)
     /\ (\A i, j \in DOMAIN KeyPositions : KeyPositions[i] = KeyPositions[j] => i = j)) =>
    /\ last.err = ""
    /\ Len(conts[last.c].inner) = Len(pre.conts[last.c].inner)
    /\ \A j \in DOMAIN KeyPositions :
         /\ CameFrom(conts[last.c].inner[KeyPositions[j]], YieldsOf(last.call)[j])
         /\ rows[conts[last.c].inner[KeyPositions[j]]].parent = last.c
         /\ (pre.conts[last.c].inner[KeyPositions[j]] \notin Range(conts[last.c].inner)
               => rows[pre.conts[last.c].inner[KeyPositions[j]]].parent = 0)
    /\ \A i \in DOMAIN pre.conts[last.c].inner :
         i \notin Range(KeyPositions) => conts[last.c].inner[i] = pre.conts[last.c].inner[i]

\* C28: after row construction, field assignment, edit, add, insert,
\* replace and index assignment, no container is reachable from itself
\* through its rows and their values: the model stays a finite tree.
C28_NoCycle ==
  \A c \in ContIds(Heap) :
    c \notin ReachFrom(Heap, ListsOf(Heap, Range(conts[c].inner)), Fuel)

\* The positions row r occupies in container c.
PositionsOf(c, r) == {i \in DOMAIN conts[c].inner : conts[c].inner[i] = r}

\* C29: after add, insert, replace, index assignment and remove (also a
\* call that names the same detached row twice, and slices with negative
\* bounds), a row occupies at most one position of one container, and it is
\* in the row sequence of container L iff its parent is L.
C29_OneContainerPerRow ==
  \A r \in RowIds(Heap) :
    /\ Cardinality(UNION {{<<c, i>> : i \in PositionsOf(c, r)} : c \in ContIds(Heap)}) <= 1
    /\ \A c \in ContIds(Heap) : PositionsOf(c, r) # {} <=> rows[r].parent = c

\* C30: when edit raises, every field of the row and the ownership of its
\* container values are as before the call; a row that sits in a container
\* never ends up with a required field equal to None.
C30_FailedEditKeepsRow ==
  (last.op = "edit" /\ last.err # "") =>
    /\ rows[last.r].f = pre.rows[last.r].f
    /\ \A n \in DOMAIN rows[last.r].f :
         IsList(rows[last.r].f[n]) =>
           conts[rows[last.r].f[n].id].owner = pre.conts[rows[last.r].f[n].id].owner
    /\ rows[last.r].parent # 0 =>
         \A i \in DOMAIN ArgsRequired(rows[last.r].kind) :
           rows[last.r].f[ArgsRequired(rows[last.r].kind)[i]] # None

====
